---- MODULE Spec2Model ----
(***************************************************************************)
(* Lease lock (downloader/lock.py, class LockManager) and the download     *)
(* orchestration loop (downloader/base.py, ModelDownloader.download_model) *)
(* of kthena, for several processes; each manager has a lock path, and in  *)
(* all specifications but PathsSpec the managers share one lock path.      *)
(*                                                                         *)
(* Granularity.  Every access of a method to the shared file system is a   *)
(* step of its own (exists, getmtime, open, chmod, flock with the write,   *)
(* utime, remove); the statements between two such accesses only touch the *)
(* manager's own fields and are folded into the preceding access.          *)
(*                                                                         *)
(* Time.  The age of a file is time.time() - os.path.getmtime(lock_path).  *)
(* Time advances in units of the renewal interval (Tick); a renewal thread *)
(* whose wait has ended runs its iteration before time advances again, the *)
(* calling threads may be delayed arbitrarily.  One iteration of renew()   *)
(* is two steps: the test of the loop condition, and the refresh.  Where   *)
(* managers with the short timeout run, time also advances by a little     *)
(* more than that timeout without any wait ending (Lapse).                 *)
(*                                                                         *)
(* Transfers.  download() of the object-store variants of                  *)
(* src/python/downloader is a step for the listing and, for each object, a *)
(* step for the look at the destination and a step for the transfer (a key *)
(* that ends with a slash is passed over without a step); the              *)
(* variants that hand the transfer to an external tool run the tool in one *)
(* step.                                                                   *)
(***************************************************************************)
EXTENDS Integers, FiniteSets, Sequences, TLC

\* ------------------------------------------------------------------ bounds
NumProcs == 2
Procs == 1..NumProcs
\* cap of the per-invocation counter of download() calls
MaxDownloads == 2
\* number of processes that call download_model of downloader.py
NumCallers == 2
Callers == 1..NumCallers
\* longest part of a source after its scheme
MaxLen == 3
\* largest number of object keys under the prefix
MaxKeys == 2
\* object keys, listed in this order
Keys == 1..MaxKeys
\* number of lock paths
NumPaths == 2
Paths == 1..NumPaths
\* cap of the number of live renew() threads a process has at a time
MaxThreads == 2

\* ------------------------------------------------------- program constants
Timeout == 600
RenewInterval == 300
\* the timeout of the manager of matrixinfer's download_model
ShortTimeout == 15
\* the default of max_workers of download_model of downloader.py
MaxWorkers == 8
\* the timeouts the orchestrators construct their manager with
OrchTimeouts == {Timeout, ShortTimeout}

\* age saturates one renewal interval above the timeout
MaxAge == Timeout + RenewInterval

\* exceptions a backend download() may raise
Errors == {"E1", "E2"}

VARIABLES
    \* --- file system, per lock path
    inode_at,          \* inode the path names, 0: no such file
    age_at,            \* time.time() - mtime of the file at the path
    content_at,        \* the process identifier written in that file, 0:
                       \* the file is empty or there is none
    \* --- LockManager fields, one manager per process
    lock_path,         \* self.lock_path
    is_locked,         \* self._is_locked
    lock_file,         \* inode of the open self._lock_file, 0: None / closed
    flocked,           \* the open file description owns the flock
    stop_renew_event,  \* self.stop_renew_event.is_set()
    threads,           \* the live renew() threads of the process: how
                       \* many of them stand at each position
    \* --- control
    pc,                \* position of the calling thread
    ret,               \* value returned by the last try_acquire, "none"
                       \* while one is in progress or after release
    saw,               \* what the expiry check of the current acquisition saw
    \* --- download_model
    pending,           \* how download() ended: "ok" or the exception raised
    outcome,           \* how download_model ended
    downloads,         \* number of download() invocations of this call
    stop_event,        \* self.stop_event.is_set() of the downloader
    timeout,           \* self.timeout of the manager
    dir_exists,        \* the directory of the lock path exists
    \* --- the job: download_model(source, output_dir, config)
    source,            \* the source string, a sequence of characters
    config,            \* the credentials dictionary
    variant,           \* the downloader get_downloader returned, per caller
    remote,            \* the objects under the prefix in the bucket
    local,             \* the files in the destination directory
    calls,             \* what download() asked of its storage client or
                       \* copy tool, in order, per caller
    progress           \* where a running download() of an object-store
                       \* variant stands, per caller: the key it is at and
                       \* whether it has found that the key is to be
                       \* transferred; key 0 when no download() is running

vars == <<inode_at, age_at, content_at, lock_path, is_locked, lock_file,
          flocked, stop_renew_event, threads, pc, ret, saw, pending, outcome,
          downloads, stop_event, timeout, dir_exists, source, config,
          variant, remote, local, calls, progress>>

\* the files, and the paths of the managers, which never change
fsVars == <<inode_at, age_at, content_at, lock_path>>
jobVars == <<source, config, variant, remote, local, calls, progress>>
dmVars == <<pending, outcome, downloads, stop_event, timeout, dir_exists,
            jobVars>>

\* no job: the lock manager is used on its own
NoSource == <<>>
NoConfig == [k \in {} |-> "None"]
NoFiles == [k \in {} |-> ""]
NoVariant == [class |-> "none", model_uri |-> <<>>,
              access_key |-> "None", secret_key |-> "None"]
\* no download() is running
NotStarted == [key |-> 0, go |-> FALSE]

\* the path the managers share in all specifications but PathsSpec
SharedPath == 1

\* where a renew() thread stands: before the test of the loop condition
\* (line 114), before the refresh (line 117), in wait (line 125).  The
\* threads of the manager the process has now stand at "run", "touch" and
\* "wait"; the threads of a manager that an earlier download_model of the
\* process made and released stand at the positions named "old_": they
\* read the fields of that manager, whose event is set and whose
\* _is_locked is False for good.
Positions == {"run", "touch", "wait", "old_run", "old_touch", "old_wait"}

\* no thread at any position
NoThreads == [s \in Positions |-> 0]

\* the number of threads in t
Live(t) ==
    t["run"] + t["touch"] + t["wait"]
    + t["old_run"] + t["old_touch"] + t["old_wait"]

\* no file at any path, and the managers after construction, but for
\* their lock paths
InitManagers ==
    /\ inode_at = [x \in Paths |-> 0]
    /\ age_at = [x \in Paths |-> 0]
    /\ content_at = [x \in Paths |-> 0]
    /\ is_locked = [p \in Procs |-> FALSE]
    /\ lock_file = [p \in Procs |-> 0]
    /\ flocked = [p \in Procs |-> FALSE]
    /\ stop_renew_event = [p \in Procs |-> FALSE]
    /\ threads = [p \in Procs |-> NoThreads]
    /\ pc = [p \in Procs |-> "idle"]
    /\ ret = [p \in Procs |-> "none"]
    /\ saw = [p \in Procs |-> "none"]
    /\ pending = [p \in Procs |-> "none"]
    /\ outcome = [p \in Procs |-> "none"]
    /\ downloads = [p \in Procs |-> 0]
    /\ stop_event = [p \in Procs |-> FALSE]
    /\ dir_exists = FALSE

\* the file system and the managers after construction on one lock path
InitLock ==
    /\ InitManagers
    /\ lock_path = [p \in Procs |-> SharedPath]

\* no job is given
InitNoJob ==
    /\ source = NoSource
    /\ config = NoConfig
    /\ variant = [p \in Procs |-> NoVariant]
    /\ remote = NoFiles
    /\ local = NoFiles
    /\ calls = [p \in Procs |-> <<>>]
    /\ progress = [p \in Procs |-> NotStarted]

Init ==
    /\ InitLock
    /\ timeout = [p \in Procs |-> Timeout]
    /\ InitNoJob

\* --------------------------------------------------------------- helpers

\* inode numbers of the files that exist: those some path names and those
\* a manager holds open
InUse == {inode_at[x] : x \in Paths} \cup {lock_file[q] : q \in Procs}

\* the inode number of a file that is created: the smallest not in use
FreshIno ==
    CHOOSE i \in 1..(NumProcs + NumPaths) :
        i \notin InUse /\ \A j \in 1..(i - 1) : j \in InUse

\* mutant of LockPath: every manager works on the same path
OnePath(p) == SharedPath

\* line 33: the path the manager works on
LockPath(p) == lock_path[p]

\* mutant of NotExpired: an existing lock file is never taken over
NeverExpired(a, t) == TRUE

\* time.time() - mtime < self.timeout
NotExpired(a, t) == a < t

\* fcntl.flock(LOCK_EX | LOCK_NB) raises: another open file description
\* on the same inode owns the lock
FlockBusy(p) ==
    \E q \in Procs \ {p} : lock_file[q] = lock_file[p] /\ flocked[q]

\* mutant of Unlocked: _cleanup leaves _is_locked as it was
StillLocked(l) == l

\* line 102: _is_locked after _cleanup, whatever it was before
Unlocked(l) == FALSE

\* LockManager._cleanup
Cleanup(p) ==
    /\ lock_file' = [lock_file EXCEPT ![p] = 0]
    /\ flocked' = [flocked EXCEPT ![p] = FALSE]
    /\ is_locked' = [is_locked EXCEPT ![p] = Unlocked(@)]

\* ------------------------------------------------ LockManager.try_acquire
\* mutant of AlreadyHeld: a held manager goes through acquisition again
NeverHeld(l) == FALSE

\* lines 54-55: try_acquire returns True at once on a locked manager
AlreadyHeld(l) == l

\* lines 74-77: the handler of try_acquire logs the exception, runs
\* _cleanup and returns False
TA_Raise(p, onFalse) ==
    /\ Cleanup(p)
    /\ pc' = [pc EXCEPT ![p] = onFalse]
    /\ ret' = [ret EXCEPT ![p] = "false"]
    /\ saw' = [saw EXCEPT ![p] = "none"]

\* lines 54-59, entered from position `from': already held, or makedirs
\* of the lock directory and os.path.exists of the lock path
TA_Check(p, from, onTrue) ==
    /\ pc[p] = from
    /\ IF AlreadyHeld(is_locked[p])
       THEN /\ pc' = [pc EXCEPT ![p] = onTrue]
            /\ ret' = [ret EXCEPT ![p] = "true"]
            /\ saw' = saw
       ELSE IF inode_at[LockPath(p)] # 0
       THEN /\ pc' = [pc EXCEPT ![p] = "ta_mtime"]
            /\ ret' = [ret EXCEPT ![p] = "none"]
            /\ saw' = [saw EXCEPT ![p] = "none"]
       ELSE /\ pc' = [pc EXCEPT ![p] = "ta_open"]
            /\ ret' = [ret EXCEPT ![p] = "none"]
            /\ saw' = [saw EXCEPT ![p] = "missing"]
    /\ dir_exists' = (AlreadyHeld(is_locked[p]) => dir_exists)
    /\ UNCHANGED <<fsVars, is_locked, lock_file, flocked, stop_renew_event,
                   threads, pending, outcome, downloads, stop_event, timeout,
                   jobVars>>

\* lines 60-63: os.path.getmtime of the path that existed in line 59 and
\* the expiry test; getmtime raises when the file has been removed
\* meanwhile, and the handler returns False
TA_Mtime(p, onFalse) ==
    /\ pc[p] = "ta_mtime"
    /\ IF inode_at[LockPath(p)] = 0
       THEN TA_Raise(p, onFalse)
       ELSE IF NotExpired(age_at[LockPath(p)], timeout[p])
       THEN /\ pc' = [pc EXCEPT ![p] = onFalse]
            /\ ret' = [ret EXCEPT ![p] = "false"]
            /\ saw' = [saw EXCEPT ![p] = "none"]
            /\ UNCHANGED <<lock_file, flocked, is_locked>>
       ELSE /\ pc' = [pc EXCEPT ![p] = "ta_open"]
            /\ saw' = [saw EXCEPT ![p] = "expired"]
            /\ UNCHANGED <<lock_file, flocked, is_locked, ret>>
    /\ UNCHANGED <<fsVars, stop_renew_event, threads, dmVars>>

\* line 64: open(path, "w") creates the file or truncates it, either way
\* it is empty and its mtime is now
OpenW(x) ==
    /\ inode_at' = [inode_at EXCEPT ![x] = IF @ = 0 THEN FreshIno ELSE @]
    /\ age_at' = [age_at EXCEPT ![x] = 0]
    /\ content_at' = [content_at EXCEPT ![x] = 0]

\* line 64: self._lock_file = open(lock_path, "w")
TA_Open(p) ==
    /\ pc[p] = "ta_open"
    /\ OpenW(LockPath(p))
    /\ lock_file' = [lock_file EXCEPT ![p] = inode_at'[LockPath(p)]]
    /\ pc' = [pc EXCEPT ![p] = "ta_chmod"]
    /\ UNCHANGED <<lock_path, is_locked, flocked, stop_renew_event, threads,
                   ret, saw, dmVars>>

\* line 65: os.chmod of the path; it raises when the file has been removed
\* since it was opened, and the handler closes the file and returns False
TA_Chmod(p, onFalse) ==
    /\ pc[p] = "ta_chmod"
    /\ IF inode_at[LockPath(p)] = 0
       THEN TA_Raise(p, onFalse)
       ELSE /\ pc' = [pc EXCEPT ![p] = "ta_flock"]
            /\ UNCHANGED <<lock_file, flocked, is_locked, ret, saw>>
    /\ UNCHANGED <<fsVars, stop_renew_event, threads, dmVars>>

\* lines 67-68: what the files hold after the pid of p has been written
\* and flushed to the open file f (a file that no path names any more
\* is not modelled)
PidWritten(p, f) ==
    [x \in Paths |-> IF f = inode_at[x] THEN p ELSE content_at[x]]

\* lines 67-68: the ages of the files once the open file f has been
\* written to: the write sets its modification time to now
Modified(f) ==
    [x \in Paths |-> IF f = inode_at[x] THEN 0 ELSE age_at[x]]

\* lines 66-68: flock, then write the pid and flush; a busy lock raises,
\* the handler (lines 74-77) cleans up and returns False
TA_Flock(p, onFalse) ==
    /\ pc[p] = "ta_flock"
    /\ IF FlockBusy(p)
       THEN /\ Cleanup(p)
            /\ pc' = [pc EXCEPT ![p] = onFalse]
            /\ ret' = [ret EXCEPT ![p] = "false"]
            /\ saw' = [saw EXCEPT ![p] = "none"]
            /\ UNCHANGED <<content_at, age_at>>
       ELSE /\ flocked' = [flocked EXCEPT ![p] = TRUE]
            /\ content_at' = PidWritten(p, lock_file[p])
            /\ age_at' = Modified(lock_file[p])
            /\ pc' = [pc EXCEPT ![p] = "ta_utime"]
            /\ UNCHANGED <<lock_file, is_locked, ret, saw>>
    /\ UNCHANGED <<inode_at, lock_path, stop_renew_event, threads, dmVars>>

\* LockManager._start_renew_thread: clear the event, start one more
\* thread
StartRenewThread(p) ==
    /\ Live(threads[p]) < MaxThreads
    /\ stop_renew_event' = [stop_renew_event EXCEPT ![p] = FALSE]
    /\ threads' = [threads EXCEPT ![p]["run"] = @ + 1]

\* mutant of Acquired: a successful try_acquire does not mark the manager
NotMarked == FALSE

\* line 70: _is_locked once the advisory lock is taken and the file touched
Acquired == TRUE

\* lines 69-73: utime of the path, _is_locked = True, start renewal;
\* utime raises when the path has been removed meanwhile
TA_Utime(p, onTrue, onFalse) ==
    /\ pc[p] = "ta_utime"
    /\ IF inode_at[LockPath(p)] = 0
       THEN /\ Cleanup(p)
            /\ pc' = [pc EXCEPT ![p] = onFalse]
            /\ ret' = [ret EXCEPT ![p] = "false"]
            /\ saw' = [saw EXCEPT ![p] = "none"]
            /\ UNCHANGED <<age_at, stop_renew_event, threads>>
       ELSE /\ age_at' = [age_at EXCEPT ![LockPath(p)] = 0]
            /\ is_locked' = [is_locked EXCEPT ![p] = Acquired]
            /\ StartRenewThread(p)
            /\ pc' = [pc EXCEPT ![p] = onTrue]
            /\ ret' = [ret EXCEPT ![p] = "true"]
            /\ UNCHANGED <<lock_file, flocked, saw>>
    /\ UNCHANGED <<inode_at, content_at, lock_path, dmVars>>

\* ---------------------------------------------------- LockManager.release
\* LockManager.stop_renew: set the event; the join is bounded by one
\* second, so the caller goes on whether or not the thread has exited
StopRenew(p) ==
    stop_renew_event' = [stop_renew_event EXCEPT ![p] = TRUE]

\* mutant of NotHeld: release never returns early
NeverSkips(l) == FALSE

\* line 80: release returns at once on a manager that is not locked
NotHeld(l) == ~l

\* lines 80-82, entered from position `from'
RL_Stop(p, from, onDone) ==
    /\ pc[p] = from
    /\ IF NotHeld(is_locked[p])
       THEN /\ pc' = [pc EXCEPT ![p] = onDone]
            /\ UNCHANGED <<stop_renew_event, ret>>
       ELSE /\ StopRenew(p)
            /\ pc' = [pc EXCEPT ![p] = "rl_unlock"]
            /\ ret' = [ret EXCEPT ![p] = "none"]
    /\ UNCHANGED <<fsVars, is_locked, lock_file, flocked, threads, saw,
                   dmVars>>

\* lines 85-86: flock(LOCK_UN), close
RL_Unlock(p) ==
    /\ pc[p] = "rl_unlock"
    /\ flocked' = [flocked EXCEPT ![p] = FALSE]
    /\ lock_file' = [lock_file EXCEPT ![p] = 0]
    /\ pc' = [pc EXCEPT ![p] = "rl_exists"]
    /\ UNCHANGED <<fsVars, is_locked, stop_renew_event, threads, ret, saw,
                   dmVars>>

\* line 87, and lines 92-93 when there is nothing to remove
RL_Exists(p, onDone) ==
    /\ pc[p] = "rl_exists"
    /\ IF inode_at[LockPath(p)] # 0
       THEN /\ pc' = [pc EXCEPT ![p] = "rl_remove"]
            /\ UNCHANGED <<is_locked, saw>>
       ELSE /\ is_locked' = [is_locked EXCEPT ![p] = FALSE]
            /\ saw' = [saw EXCEPT ![p] = "none"]
            /\ pc' = [pc EXCEPT ![p] = onDone]
    /\ UNCHANGED <<fsVars, lock_file, flocked, stop_renew_event, threads,
                   ret, dmVars>>

\* mutant of Removed: release leaves the lock file in place
NotRemoved(ino) == ino

\* what os.remove leaves at the lock path
Removed(ino) == 0

\* lines 88-93: os.remove (FileNotFoundError is caught), finally _cleanup
RL_Remove(p, onDone) ==
    /\ pc[p] = "rl_remove"
    /\ inode_at' = [inode_at EXCEPT ![LockPath(p)] = Removed(@)]
    /\ age_at' = [age_at EXCEPT
                     ![LockPath(p)] = IF inode_at'[LockPath(p)] = 0 THEN 0
                                      ELSE @]
    /\ content_at' = [content_at EXCEPT
                         ![LockPath(p)] = IF inode_at'[LockPath(p)] = 0
                                          THEN 0 ELSE @]
    /\ is_locked' = [is_locked EXCEPT ![p] = FALSE]
    /\ saw' = [saw EXCEPT ![p] = "none"]
    /\ pc' = [pc EXCEPT ![p] = onDone]
    /\ UNCHANGED <<lock_path, lock_file, flocked, stop_renew_event, threads,
                   ret, dmVars>>

\* ------------------------------------------------------ LockManager.renew
\* mutant of Renewed: renewal creates the lock file when it is missing
Recreated(ino) == IF ino = 0 THEN FreshIno ELSE ino

\* lines 117-124: what the path names after an iteration: utime of an
\* existing file, a warning when there is none
Renewed(ino) == ino

\* lines 114-116, the head of one iteration: leave the loop when the event
\* is set or the manager is not locked, else go on to the refresh
RenewIterate(p) ==
    /\ \E s \in {"run", "old_run"} :
          /\ threads[p][s] > 0
          /\ IF s = "old_run" \/ stop_renew_event[p] \/ ~is_locked[p]
             THEN threads' = [threads EXCEPT ![p][s] = @ - 1]
             ELSE threads' = [threads EXCEPT ![p]["run"] = @ - 1,
                                             ![p]["touch"] = @ + 1]
    /\ UNCHANGED <<fsVars, is_locked, lock_file, flocked, stop_renew_event,
                   pc, ret, saw, dmVars>>

\* lines 117-125: refresh the mtime if the path exists (never create the
\* file; an error of utime is logged), then wait
RenewTouch(p) ==
    /\ \/ /\ threads[p]["touch"] > 0
          /\ threads' = [threads EXCEPT ![p]["touch"] = @ - 1,
                                          ![p]["wait"] = @ + 1]
       \/ /\ threads[p]["old_touch"] > 0
          /\ threads' = [threads EXCEPT ![p]["old_touch"] = @ - 1,
                                          ![p]["old_wait"] = @ + 1]
    /\ inode_at' = [inode_at EXCEPT ![LockPath(p)] = Renewed(@)]
    /\ age_at' = [age_at EXCEPT ![LockPath(p)] = 0]
    /\ UNCHANGED <<content_at, lock_path, is_locked, lock_file, flocked,
                   stop_renew_event, pc, ret, saw, dmVars>>

\* line 125: wait(interval) returns at once when the event is set
RenewWake(p) ==
    /\ \/ /\ threads[p]["wait"] > 0
          /\ stop_renew_event[p]
          /\ threads' = [threads EXCEPT ![p]["wait"] = @ - 1,
                                          ![p]["run"] = @ + 1]
       \/ /\ threads[p]["old_wait"] > 0
          /\ threads' = [threads EXCEPT ![p]["old_wait"] = @ - 1,
                                          ![p]["old_run"] = @ + 1]
    /\ UNCHANGED <<fsVars, is_locked, lock_file, flocked, stop_renew_event,
                   pc, ret, saw, dmVars>>

\* one renewal interval passes: every wait(interval) times out
Tick ==
    /\ \A p \in Procs :
          /\ \A s \in Positions \ {"wait"} : threads[p][s] = 0
          /\ ~(threads[p]["wait"] > 0 /\ stop_renew_event[p])
    /\ age_at' = [x \in Paths |->
                     IF inode_at[x] = 0 THEN 0
                     ELSE IF age_at[x] + RenewInterval > MaxAge THEN MaxAge
                     ELSE age_at[x] + RenewInterval]
    /\ threads' = [p \in Procs |->
                      [NoThreads EXCEPT !["run"] = threads[p]["wait"]]]
    /\ UNCHANGED <<inode_at, content_at, lock_path, is_locked, lock_file,
                   flocked, stop_renew_event, pc, ret, saw, dmVars>>

\* a little more than the short timeout passes, less than a renewal
\* interval: no wait(interval) times out, a file that was just modified
\* is older than the short timeout
Lapse ==
    /\ \A p \in Procs :
          /\ \A s \in Positions \ {"wait"} : threads[p][s] = 0
          /\ ~(threads[p]["wait"] > 0 /\ stop_renew_event[p])
    /\ \E x \in Paths : inode_at[x] # 0 /\ age_at[x] <= ShortTimeout
    /\ age_at' = [x \in Paths |->
                     IF inode_at[x] # 0 /\ age_at[x] <= ShortTimeout
                     THEN ShortTimeout + 1 ELSE age_at[x]]
    /\ UNCHANGED <<inode_at, content_at, lock_path, is_locked, lock_file,
                   flocked, stop_renew_event, threads, pc, ret, saw, dmVars>>

Renewal(p) == RenewIterate(p) \/ RenewTouch(p) \/ RenewWake(p)

\* ------------------------------------- clients of the LockManager methods
ClientStopRenew(p) ==
    /\ pc[p] = "idle"
    /\ is_locked[p]
    /\ ~stop_renew_event[p]
    /\ StopRenew(p)
    /\ UNCHANGED <<fsVars, is_locked, lock_file, flocked, threads, pc, ret,
                   saw, dmVars>>

TryAcquire(p) ==
    \/ TA_Check(p, "idle", "idle")
    \/ TA_Mtime(p, "idle")
    \/ TA_Open(p)
    \/ TA_Chmod(p, "idle")
    \/ TA_Flock(p, "idle")
    \/ TA_Utime(p, "idle", "idle")

Release(p) ==
    \/ RL_Stop(p, "idle", "idle")
    \/ RL_Unlock(p)
    \/ RL_Exists(p, "idle")
    \/ RL_Remove(p, "idle")

Next ==
    \/ \E p \in Procs : ClientStopRenew(p)
    \/ \E p \in Procs : TryAcquire(p)
    \/ \E p \in Procs : Release(p)
    \/ \E p \in Procs : Renewal(p)
    \/ Tick

Spec == Init /\ [][Next]_vars

\* managers on any lock paths, shared or distinct
PathsInit ==
    /\ InitManagers
    /\ lock_path \in [Procs -> Paths]
    /\ timeout = [p \in Procs |-> Timeout]
    /\ InitNoJob

PathsSpec == PathsInit /\ [][Next]_vars

\* the managers constructed with the timeout of one of the orchestrators
LeaseInit ==
    /\ InitLock
    /\ \E t \in OrchTimeouts : timeout = [p \in Procs |-> t]
    /\ InitNoJob

LeaseSpec == LeaseInit /\ [][Next]_vars

\* ------------------------------------ ModelDownloader.download_model
\* mutant of Made: the destination directory is not created
NotMade(d) == d

\* lines 45-46: os.makedirs(model_dir, exist_ok=True), d telling whether
\* the directory was there before
Made(d) == TRUE

\* the classes whose download_model is the one of
\* matrixinfer/downloader/base.py; the others have the one of
\* downloader/base.py
OfMatrixinfer(v) ==
    v.class \in {"matrixinfer.S3Downloader", "kthena.PVCDownloader",
                 "matrixinfer.HuggingFaceDownloader"}

\* the timeout download_model constructs its LockManager with:
\* downloader/base.py line 48, matrixinfer/downloader/base.py line 47
LeaseTimeout(v) == IF OfMatrixinfer(v) THEN ShortTimeout ELSE Timeout

\* lines 36-38 and 45-48: a new downloader, makedirs, a new LockManager
\* (lock.py lines 32-39); a process runs one invocation after another.
\* The renew() threads that are still alive belong to the manager of the
\* invocation that has ended, which has run release(): they go on with
\* the fields of that manager.
DM_Start(p) ==
    /\ pc[p] = "idle"
    /\ threads' = [threads EXCEPT ![p] =
                      [NoThreads EXCEPT
                          !["old_run"] = threads[p]["old_run"]
                                         + threads[p]["run"],
                          !["old_touch"] = threads[p]["old_touch"]
                                           + threads[p]["touch"],
                          !["old_wait"] = threads[p]["old_wait"]
                                          + threads[p]["wait"]]]
    /\ pc' = [pc EXCEPT ![p] = "dm_loop"]
    /\ is_locked' = [is_locked EXCEPT ![p] = FALSE]
    /\ lock_file' = [lock_file EXCEPT ![p] = 0]
    /\ flocked' = [flocked EXCEPT ![p] = FALSE]
    /\ stop_renew_event' = [stop_renew_event EXCEPT ![p] = FALSE]
    /\ ret' = [ret EXCEPT ![p] = "none"]
    /\ saw' = [saw EXCEPT ![p] = "none"]
    /\ pending' = [pending EXCEPT ![p] = "none"]
    /\ outcome' = [outcome EXCEPT ![p] = "none"]
    /\ downloads' = [downloads EXCEPT ![p] = 0]
    /\ stop_event' = [stop_event EXCEPT ![p] = FALSE]
    /\ timeout' = [timeout EXCEPT ![p] = LeaseTimeout(variant[p])]
    /\ dir_exists' = Made(dir_exists)
    /\ UNCHANGED <<fsVars, jobVars>>

\* line 63: stop_event.wait(timeout=60) ends after the interval, or at once
\* when the event is set; its result is dropped and the loop goes on
AfterWait(cancelled) == "dm_loop"

\* line 51: try_acquire; True enters the fetch, False waits (line 63) and
\* tries again
DM_TryAcquire(p) ==
    \/ TA_Check(p, "dm_loop", "dm_download")
    \/ TA_Mtime(p, AfterWait(stop_event[p]))
    \/ TA_Open(p)
    \/ TA_Chmod(p, AfterWait(stop_event[p]))
    \/ TA_Flock(p, AfterWait(stop_event[p]))
    \/ TA_Utime(p, "dm_download", AfterWait(stop_event[p]))

\* mutant of AfterDownload: the release is skipped on the normal path
AfterDownloadNoFinally(r) == IF r = "ok" THEN "dm_exit" ELSE "dm_finally"

\* lines 52-60: where control goes when download() ends with r, normally
\* ("ok", then break) or by raising r: the finally clause
AfterDownload(r) == "dm_finally"

\* line 54: download() is called, or the download() that is running goes
\* on, and takes one of the steps of `steps', each with the files it
\* leaves in the destination, the calls made so far, where download()
\* stands after it and its result, "none" when it has not ended
DM_Run(p, steps) ==
    /\ pc[p] = "dm_download"
    /\ \E d \in steps :
          /\ pending' = [pending EXCEPT ![p] = d.result]
          /\ pc' = [pc EXCEPT ![p] = IF d.result = "none" THEN "dm_download"
                                     ELSE AfterDownload(d.result)]
          /\ local' = d.files
          /\ calls' = [calls EXCEPT ![p] = d.calls]
          /\ progress' = [progress EXCEPT ![p] = d.at]
    /\ downloads' = [downloads EXCEPT ![p] =
                        IF progress[p] = NotStarted /\ @ < MaxDownloads
                        THEN @ + 1 ELSE @]
    /\ UNCHANGED <<fsVars, is_locked, lock_file, flocked, stop_renew_event,
                   threads, ret, saw, outcome, stop_event, timeout,
                   dir_exists, source, config, variant, remote>>

\* download() of a backend that is not looked into: it ends in one of the
\* ways of `results' and leaves the rest as it is
DM_Fetch(p, results) ==
    DM_Run(p, {[result |-> r, files |-> local, calls |-> calls[p],
                at |-> NotStarted] : r \in results})

DM_Download(p) == DM_Fetch(p, {"ok"} \cup Errors)

\* line 60: release() in the finally clause
DM_Release(p) ==
    \/ RL_Stop(p, "dm_finally", "dm_exit")
    \/ RL_Unlock(p)
    \/ RL_Exists(p, "dm_exit")
    \/ RL_Remove(p, "dm_exit")

\* mutant of AfterRelease: a failed fetch is tried again
AfterReleaseRetry(r) == IF r = "ok" THEN "idle" ELSE "dm_loop"

\* where download_model continues after the finally clause when download()
\* ended with r: it returns or raises, it never loops
AfterRelease(r) == "idle"

\* mutant of Reraise: the exception is replaced by another one
Wrapped(r) == "RuntimeError"

\* what download_model raises when download() raised r (lines 58 and 68)
Reraise(r) == r

\* after the finally clause: break and return, or the handler of lines
\* 64-68, which releases once more if the manager is still locked and
\* raises the exception again
DM_Exit(p) ==
    /\ pc[p] = "dm_exit"
    /\ IF pending[p] # "ok" /\ is_locked[p]
       THEN /\ StopRenew(p)
            /\ pc' = [pc EXCEPT ![p] = "rl_unlock"]
            /\ ret' = [ret EXCEPT ![p] = "none"]
            /\ UNCHANGED <<outcome, pending>>
       ELSE /\ outcome' = [outcome EXCEPT ![p] =
                              IF pending[p] = "ok" THEN "ok"
                              ELSE Reraise(pending[p])]
            /\ pending' = [pending EXCEPT ![p] = "none"]
            /\ pc' = [pc EXCEPT ![p] = AfterRelease(pending[p])]
            /\ UNCHANGED <<stop_renew_event, ret>>
    /\ UNCHANGED <<fsVars, is_locked, lock_file, flocked, threads, saw,
                   downloads, stop_event, timeout, dir_exists, jobVars>>

NextOrch ==
    \/ \E p \in Procs : DM_Start(p)
    \/ \E p \in Procs : DM_TryAcquire(p)
    \/ \E p \in Procs : DM_Download(p)
    \/ \E p \in Procs : DM_Release(p)
    \/ \E p \in Procs : DM_Exit(p)
    \/ \E p \in Procs : Renewal(p)
    \/ Tick

OrchSpec == Init /\ [][NextOrch]_vars

\* ------------------------------------------- I/O errors in try_acquire
\* Every statement of the try block (lines 57-73) may raise; the handler
\* (lines 74-77) logs, runs _cleanup and returns False.
\* line 58 or line 60: makedirs raises and leaves the directory as it
\* was, or getmtime raises on a file that is there
TA_CheckFails(p, from, onFalse) ==
    /\ pc[p] \in {from, "ta_mtime"}
    /\ ~is_locked[p]
    /\ TA_Raise(p, onFalse)
    /\ UNCHANGED <<fsVars, stop_renew_event, threads, dmVars>>

\* line 64: open raises, no file is created or truncated
TA_OpenFails(p, onFalse) ==
    /\ pc[p] = "ta_open"
    /\ TA_Raise(p, onFalse)
    /\ UNCHANGED <<fsVars, stop_renew_event, threads, dmVars>>

\* line 65: chmod raises on a file that is there
TA_ChmodFails(p, onFalse) ==
    /\ pc[p] = "ta_chmod"
    /\ TA_Raise(p, onFalse)
    /\ UNCHANGED <<fsVars, stop_renew_event, threads, dmVars>>

\* lines 66-68: flock raises for another reason than a busy lock, or write
\* or flush raises with the lock taken; _cleanup closes the file (line
\* 98), and the close writes the buffered pid out, which modifies the
\* file, unless it fails as well
TA_WriteFails(p, onFalse) ==
    /\ pc[p] = "ta_flock"
    /\ TA_Raise(p, onFalse)
    /\ \/ UNCHANGED <<content_at, age_at>>
       \/ /\ ~FlockBusy(p)
          /\ content_at' = PidWritten(p, lock_file[p])
          /\ age_at' = Modified(lock_file[p])
    /\ UNCHANGED <<inode_at, lock_path, stop_renew_event, threads, dmVars>>

\* line 69: utime raises
TA_UtimeFails(p, onFalse) ==
    /\ pc[p] = "ta_utime"
    /\ TA_Raise(p, onFalse)
    /\ UNCHANGED <<fsVars, stop_renew_event, threads, dmVars>>

\* lines 69-71: utime done, _is_locked = True, then Thread.start raises
\* (after stop_renew_event.clear()); _cleanup of the locked manager
TA_StartFails(p, onFalse) ==
    /\ pc[p] = "ta_utime"
    /\ inode_at[LockPath(p)] # 0
    /\ age_at' = [age_at EXCEPT ![LockPath(p)] = 0]
    /\ stop_renew_event' = [stop_renew_event EXCEPT ![p] = FALSE]
    /\ lock_file' = [lock_file EXCEPT ![p] = 0]
    /\ flocked' = [flocked EXCEPT ![p] = FALSE]
    /\ is_locked' = [is_locked EXCEPT ![p] = Unlocked(TRUE)]
    /\ pc' = [pc EXCEPT ![p] = onFalse]
    /\ ret' = [ret EXCEPT ![p] = "false"]
    /\ saw' = [saw EXCEPT ![p] = "none"]
    /\ UNCHANGED <<inode_at, content_at, lock_path, threads, dmVars>>

\* ----------------------------------------------- I/O errors in release
\* mutant of Caught: the exception leaves release()
Uncaught(k) == "raised"

\* lines 90-91: the handler logs the exception, release() ends normally
Caught(k) == k

\* lines 85-86 raise: logged (lines 90-91), finally _cleanup closes the
\* file; the path is not removed
RL_UnlockFails(p, onDone) ==
    /\ pc[p] = "rl_unlock"
    /\ Cleanup(p)
    /\ saw' = [saw EXCEPT ![p] = "none"]
    /\ pc' = [pc EXCEPT ![p] = Caught(onDone)]
    /\ UNCHANGED <<fsVars, stop_renew_event, threads, ret, dmVars>>

\* line 88: os.remove raises: logged, finally _cleanup; the file stays
RL_RemoveFails(p, onDone) ==
    /\ pc[p] = "rl_remove"
    /\ is_locked' = [is_locked EXCEPT ![p] = Unlocked(@)]
    /\ saw' = [saw EXCEPT ![p] = "none"]
    /\ pc' = [pc EXCEPT ![p] = Caught(onDone)]
    /\ UNCHANGED <<fsVars, lock_file, flocked, stop_renew_event, threads,
                   ret, dmVars>>

\* ------------------------------------------------------- the environment
\* something outside the program removes a lock file
ExternalRemove ==
    \E x \in Paths :
        /\ inode_at[x] # 0
        /\ inode_at' = [inode_at EXCEPT ![x] = 0]
        /\ age_at' = [age_at EXCEPT ![x] = 0]
        /\ content_at' = [content_at EXCEPT ![x] = 0]
        /\ UNCHANGED <<lock_path, is_locked, lock_file, flocked,
                       stop_renew_event, threads, pc, ret, saw, dmVars>>

\* ------------------- clients of the LockManager methods, with I/O errors
FaultTryAcquire(p) ==
    \/ TryAcquire(p)
    \/ TA_CheckFails(p, "idle", "idle")
    \/ TA_OpenFails(p, "idle")
    \/ TA_ChmodFails(p, "idle")
    \/ TA_WriteFails(p, "idle")
    \/ TA_UtimeFails(p, "idle")
    \/ TA_StartFails(p, "idle")

FaultRelease(p) ==
    \/ Release(p)
    \/ RL_UnlockFails(p, "idle")
    \/ RL_RemoveFails(p, "idle")

NextFault ==
    \/ \E p \in Procs : FaultTryAcquire(p)
    \/ \E p \in Procs : FaultRelease(p)
    \/ \E p \in Procs : Renewal(p)
    \/ Tick

FaultSpec == Init /\ [][NextFault]_vars

\* ------ clients of the LockManager methods, the lock file being removable
\* release() called by a client that then stands at "released"
EnvRelease(p) ==
    \/ RL_Stop(p, "idle", "released")
    \/ RL_Unlock(p)
    \/ RL_Exists(p, "released")
    \/ RL_Remove(p, "released")

\* the client goes on after release() has returned
EnvContinue(p) ==
    /\ pc[p] = "released"
    /\ pc' = [pc EXCEPT ![p] = "idle"]
    /\ UNCHANGED <<fsVars, is_locked, lock_file, flocked, stop_renew_event,
                   threads, ret, saw, dmVars>>

NextEnv ==
    \/ \E p \in Procs : TryAcquire(p)
    \/ \E p \in Procs : EnvRelease(p)
    \/ \E p \in Procs : EnvContinue(p)
    \/ \E p \in Procs : Renewal(p)
    \/ Tick
    \/ ExternalRemove

EnvSpec == Init /\ [][NextEnv]_vars

\* --------------------------------- scoped form: with LockManager(path)
\* lock.py lines 32-39 and 41-47.  A process runs the statement once.
With_Start(p) ==
    /\ pc[p] = "idle"
    /\ outcome[p] = "none"
    /\ pc' = [pc EXCEPT ![p] = "with_enter"]
    /\ UNCHANGED <<fsVars, is_locked, lock_file, flocked, stop_renew_event,
                   threads, ret, saw, dmVars>>

\* mutant of EnterFailed: __enter__ polls until the lease is free
EnterRetries == "with_enter"

\* lines 42-43: where __enter__ goes when try_acquire returned False
EnterFailed == "with_fail"

\* line 42: the single try_acquire of __enter__
With_Enter(p) ==
    \/ TA_Check(p, "with_enter", "with_body")
    \/ TA_Mtime(p, EnterFailed)
    \/ TA_Open(p)
    \/ TA_Chmod(p, EnterFailed)
    \/ TA_Flock(p, EnterFailed)
    \/ TA_Utime(p, "with_body", EnterFailed)

\* line 43: raise LockError, the body is skipped
With_Fail(p) ==
    /\ pc[p] = "with_fail"
    /\ outcome' = [outcome EXCEPT ![p] = "LockError"]
    /\ pc' = [pc EXCEPT ![p] = "idle"]
    /\ UNCHANGED <<fsVars, is_locked, lock_file, flocked, stop_renew_event,
                   threads, ret, saw, pending, downloads, stop_event,
                   timeout, dir_exists, jobVars>>

\* the body of the statement runs and ends, normally or by raising r
With_Body(p) ==
    /\ pc[p] = "with_body"
    /\ \E r \in {"ok"} \cup Errors :
          pending' = [pending EXCEPT ![p] = r]
    /\ pc' = [pc EXCEPT ![p] = "with_exit"]
    /\ UNCHANGED <<fsVars, is_locked, lock_file, flocked, stop_renew_event,
                   threads, ret, saw, outcome, downloads, stop_event,
                   timeout, dir_exists, jobVars>>

\* lines 46-47: __exit__ calls release()
With_Exit(p) ==
    \/ RL_Stop(p, "with_exit", "with_done")
    \/ RL_Unlock(p)
    \/ RL_Exists(p, "with_done")
    \/ RL_Remove(p, "with_done")

\* __exit__ returns None: the statement ends as its body ended
With_Done(p) ==
    /\ pc[p] = "with_done"
    /\ outcome' = [outcome EXCEPT ![p] = pending[p]]
    /\ pending' = [pending EXCEPT ![p] = "none"]
    /\ pc' = [pc EXCEPT ![p] = "idle"]
    /\ UNCHANGED <<fsVars, is_locked, lock_file, flocked, stop_renew_event,
                   threads, ret, saw, downloads, stop_event, timeout,
                   dir_exists, jobVars>>

NextWith ==
    \/ \E p \in Procs : With_Start(p)
    \/ \E p \in Procs : With_Enter(p)
    \/ \E p \in Procs : With_Fail(p)
    \/ \E p \in Procs : With_Body(p)
    \/ \E p \in Procs : With_Exit(p)
    \/ \E p \in Procs : With_Done(p)
    \/ \E p \in Procs : Renewal(p)
    \/ Tick

WithSpec == Init /\ [][NextWith]_vars


\* ------------------------------- download_model, called once per process
DM_Once(p) ==
    /\ outcome[p] = "none"
    /\ DM_Start(p)

\* the steps of that call when download() does not raise
DM_Step(p) ==
    \/ DM_Once(p)
    \/ DM_TryAcquire(p)
    \/ DM_Fetch(p, {"ok"})
    \/ DM_Release(p)
    \/ DM_Exit(p)

\* the caller sets the downloader's stop_event while download_model waits
\* in line 63 after a failed attempt
Cancel(p) ==
    /\ pc[p] = "dm_loop"
    /\ ret[p] = "false"
    /\ ~stop_event[p]
    /\ stop_event' = [stop_event EXCEPT ![p] = TRUE]
    /\ UNCHANGED <<fsVars, is_locked, lock_file, flocked, stop_renew_event,
                   threads, pc, ret, saw, pending, outcome, downloads,
                   timeout, dir_exists, jobVars>>

NextCancel ==
    \/ \E p \in Procs : DM_Step(p)
    \/ \E p \in Procs : Cancel(p)
    \/ \E p \in Procs : Renewal(p)
    \/ Tick

CancelSpec == Init /\ [][NextCancel]_vars


\* ------------------------------------------ a holder that stops abruptly
\* the process of p dies inside download(): its descriptors are closed by
\* the kernel (the advisory lock goes with them), its threads are gone and
\* release() is never called; the lock file stays
Crash(p) ==
    /\ pc[p] = "dm_download"
    /\ pc' = [pc EXCEPT ![p] = "crashed"]
    /\ is_locked' = [is_locked EXCEPT ![p] = FALSE]
    /\ lock_file' = [lock_file EXCEPT ![p] = 0]
    /\ flocked' = [flocked EXCEPT ![p] = FALSE]
    /\ threads' = [threads EXCEPT ![p] = NoThreads]
    /\ UNCHANGED <<fsVars, stop_renew_event, ret, saw, dmVars>>

NextCrash ==
    \/ \E p \in Procs : DM_Step(p)
    \/ \E p \in Procs : Crash(p)
    \/ \E p \in Procs : Renewal(p)
    \/ Tick

CrashSpec == Init /\ [][NextCrash]_vars

\* every live process and every live thread keeps running, time passes
CrashLive ==
    /\ CrashSpec
    /\ \A p \in Procs : WF_vars(DM_Step(p))
    /\ \A p \in Procs : WF_vars(Renewal(p))
    /\ WF_vars(Tick)


\* ------------------ contenders: download_model once per process, with
\* I/O errors in try_acquire and in release
DM_FaultTryAcquire(p) ==
    \/ DM_TryAcquire(p)
    \/ TA_CheckFails(p, "dm_loop", AfterWait(stop_event[p]))
    \/ TA_OpenFails(p, AfterWait(stop_event[p]))
    \/ TA_ChmodFails(p, AfterWait(stop_event[p]))
    \/ TA_WriteFails(p, AfterWait(stop_event[p]))
    \/ TA_UtimeFails(p, AfterWait(stop_event[p]))
    \/ TA_StartFails(p, AfterWait(stop_event[p]))

DM_FaultRelease(p) ==
    \/ DM_Release(p)
    \/ RL_UnlockFails(p, "dm_exit")
    \/ RL_RemoveFails(p, "dm_exit")

NextContend ==
    \/ \E p \in Procs : DM_Once(p)
    \/ \E p \in Procs : DM_FaultTryAcquire(p)
    \/ \E p \in Procs : DM_Download(p)
    \/ \E p \in Procs : DM_FaultRelease(p)
    \/ \E p \in Procs : DM_Exit(p)
    \/ \E p \in Procs : Renewal(p)
    \/ Tick

ContendSpec == Init /\ [][NextContend]_vars

\* every call and every renewal thread keeps running and time passes; a
\* step of try_acquire that can be taken again and again does not raise
\* every time (the first step, after a failed attempt, is the only step
\* of the call that changes anything, so that weak fairness covers it)
ContendLive ==
    /\ ContendSpec
    /\ \A p \in Procs :
          /\ WF_vars(DM_Once(p) \/ DM_Download(p) \/ DM_Exit(p))
          /\ WF_vars(DM_FaultTryAcquire(p))
          /\ WF_vars(DM_FaultRelease(p))
          /\ WF_vars(Renewal(p))
          /\ SF_vars(TA_Mtime(p, AfterWait(stop_event[p])))
          /\ SF_vars(TA_Open(p))
          /\ SF_vars(TA_Chmod(p, AfterWait(stop_event[p])))
          /\ SF_vars(TA_Flock(p, AfterWait(stop_event[p])))
          /\ SF_vars(TA_Utime(p, "dm_download", AfterWait(stop_event[p])))
    /\ WF_vars(Tick)


\* ------------------------------------------------------------- strings
\* A string is the sequence of its characters.
S3Scheme == <<"s", "3", ":", "/", "/">>
ObsScheme == <<"o", "b", "s", ":", "/", "/">>
PvcScheme == <<"p", "v", "c", ":", "/", "/">>
HfScheme == <<"h", "f", ":", "/", "/">>

\* str.startswith
StartsWith(s, pre) ==
    Len(s) >= Len(pre) /\ SubSeq(s, 1, Len(pre)) = pre

\* s[n:]
From(s, n) == SubSeq(s, n + 1, Len(s))

\* index of the first character of s that is in stops, Len(s) + 1 if none
FirstOf(s, stops) ==
    IF \E i \in 1..Len(s) : s[i] \in stops
    THEN CHOOSE i \in 1..Len(s) :
             s[i] \in stops /\ \A j \in 1..(i - 1) : s[j] \notin stops
    ELSE Len(s) + 1

\* str.lstrip("/")
LStrip(s) ==
    IF \E i \in 1..Len(s) : s[i] # "/"
    THEN LET i == CHOOSE k \in 1..Len(s) :
                      s[k] # "/" /\ \A j \in 1..(k - 1) : s[j] = "/"
         IN  SubSeq(s, i, Len(s))
    ELSE <<>>

\* dict.get(k)
Get(cfg, k) == IF k \in DOMAIN cfg THEN cfg[k] ELSE "None"

\* `not v' of a string or None
Falsy(v) == v \in {"None", ""}

\* ------------------------------------------ base.py, the backend resolver
\* characters that end the scheme, the host or the path of a url; every
\* other character of the sources stands for a letter or a digit
Separators == {":", "/", "?", "#"}

\* urlparse(url, scheme=scheme): the url's own scheme ends at its first
\* ":" (scheme is only the default of a url without one); after "//" the
\* netloc runs to the first "/", "?" or "#"; the path ends at the first
\* "?" or "#"
urlparse(url, scheme) ==
    LET colon == FirstOf(url, {":"})
        named == /\ 1 < colon /\ colon <= Len(url)
                 /\ \A i \in 1..(colon - 1) : url[i] \notin Separators
        after == IF named THEN From(url, colon) ELSE url
        slashes == StartsWith(after, <<"/", "/">>)
        rest == IF slashes THEN From(after, 2) ELSE after
        cut == IF slashes THEN FirstOf(rest, {"/", "?", "#"}) ELSE 1
        tail == From(rest, cut - 1)
    IN  [netloc |-> SubSeq(rest, 1, cut - 1),
         path |-> SubSeq(tail, 1, FirstOf(tail, {"?", "#"}) - 1)]

\* lines 28-32
parse_bucket_from_model_url(url, scheme) ==
    LET result == urlparse(url, scheme)
    IN  [bucket |-> result.netloc, prefix |-> LStrip(result.path)]

\* a downloader object: its class and the constructor arguments the
\* resolver passes that download() reads
Downloader(class, uri, cfg) ==
    [class |-> class, model_uri |-> uri,
     access_key |-> Get(cfg, "access_key"),
     secret_key |-> Get(cfg, "secret_key")]

\* what get_downloader raises
Raised(e) == [NoVariant EXCEPT !.class = e]

\* lines 73-96: the class the scheme prefix of the url selects
ClassOf(url) ==
    IF StartsWith(url, S3Scheme) THEN "S3Downloader"
    ELSE IF StartsWith(url, PvcScheme) THEN "PVCDownloader"
    ELSE IF StartsWith(url, ObsScheme) THEN "OBSDownloader"
    ELSE "HuggingFaceDownloader"

\* the keyword parameters of __init__ of the classes of the package:
\* s3.py lines 30-31, pvc.py line 11, objectstorage.py line 25,
\* huggingface.py lines 11-12
Params(class) ==
    CASE class = "S3Downloader" ->
            {"model_uri", "access_key", "secret_key", "endpoint",
             "max_workers", "chunk_size"}
      [] class = "PVCDownloader" -> {}
      [] class = "OBSDownloader" ->
            {"model_uri", "access_key", "secret_key", "obs_endpoint"}
      [] class = "HuggingFaceDownloader" ->
            {"model_uri", "hf_revision", "hf_token", "hf_endpoint",
             "force_download"}

\* the keywords get_downloader calls the class with, lines 75-96
Keywords(class) ==
    CASE class = "S3Downloader" ->
            {"model_uri", "access_key", "secret_key", "region_name"}
      [] class = "PVCDownloader" -> {}
      [] class = "OBSDownloader" ->
            {"model_uri", "access_key", "secret_key", "obs_endpoint"}
      [] class = "HuggingFaceDownloader" ->
            {"model_uri", "hf_token", "hf_endpoint", "hf_revision"}

\* the call class(**kwargs): a keyword that is no parameter of __init__
\* raises TypeError, otherwise the object is constructed
New(class, kwargs, uri, cfg) ==
    IF kwargs \subseteq Params(class) THEN Downloader(class, uri, cfg)
    ELSE Raised("TypeError")

\* get_downloader(url, config); the import of the class's module succeeds
\* or raises ImportError, which lines 100-102 turn into RuntimeError; the
\* PVCDownloader is constructed without the url
get_downloader(url, cfg, importable) ==
    LET class == ClassOf(url)
    IN  IF ~importable THEN Raised("RuntimeError")
        ELSE IF class = "PVCDownloader"
        THEN New(class, Keywords(class), <<>>, NoConfig)
        ELSE New(class, Keywords(class), url, cfg)


\* --------------------------------------------- s3.py, the S3 variant
\* file contents and their sizes in bytes
Contents == {"a", "b", "cc"}
Size(c) == IF c = "cc" THEN 2 ELSE 1

\* _calculate_file_md5: the digest of the content in hexadecimal, quoted
Md5(c) == <<"\"", c, "\"">>

\* the ETag the store reports for an object: the quoted digest of an
\* object uploaded in one part (parts "0"); for a multipart upload a
\* digest that depends on the content, "-" and the number of parts
ETag(obj) ==
    IF obj.parts = "0" THEN Md5(obj.content)
    ELSE <<"\"", obj.content, "-", obj.parts, "\"">>

Digits == {"0", "1", "2", "3", "4", "5", "6", "7", "8", "9"}

\* re.match of "([^"]+)-(\d+)" at the start of the ETag
MultipartPattern(etag) ==
    /\ Len(etag) = 5
    /\ etag[1] = "\"" /\ etag[2] # "\"" /\ etag[3] = "-"
    /\ etag[4] \in Digits /\ etag[5] = "\""

\* lines 62-68
_is_etag_match(local_md5, etag) ==
    IF (\E i \in 1..Len(etag) : etag[i] = "-") /\ MultipartPattern(etag)
    THEN TRUE
    ELSE local_md5 = etag

\* lines 71-76: the file is there with the listed size and a matching
\* digest, the object is skipped
Skips(files, k) ==
    /\ k \in DOMAIN files
    /\ Size(files[k]) = Size(remote[k].content)
    /\ _is_etag_match(Md5(files[k]), ETag(remote[k]))

\* the file system after a is written to file k
Written(files, k, c) ==
    [j \in DOMAIN files \cup {k} |-> IF j = k THEN c ELSE files[j]]

\* how a call of the storage client or the copy tool can end
Outcomes == {"ok", "ClientError", "Exception"}

\* str.endswith("/")
EndsWithSlash(key) == key # <<>> /\ key[Len(key)] = "/"

\* download() goes on with the keys of the listing from the k-th on, lines
\* 109-125 (objectstorage.py lines 47-52): a key that ends with "/" is
\* passed over (lines 116-117, objectstorage.py line 48), download()
\* stands at the first key that does not, and after the last key of the
\* listing it returns; a listing without objects is a page without
\* Contents (lines 110-112), which is passed over as well
RECURSIVE Onward(_, _)
Onward(st, k) ==
    IF k > MaxKeys \/ k \notin DOMAIN remote
    THEN [st EXCEPT !.result = "ok", !.at = NotStarted]
    ELSE IF EndsWithSlash(remote[k].key) THEN Onward(st, k + 1)
    ELSE [st EXCEPT !.at = [key |-> k, go |-> FALSE]]

\* _download_object (lines 70-93) for key k on the state st of a running
\* download(), in two steps.  Lines 71-76, the look at the destination:
\* the object is skipped or is to be transferred.  Lines 78-93:
\* download_file writes the file, raises ClientError (logged, lines
\* 89-93) or raises something else, which ends download()
_download_object(st, k, out) ==
    IF ~st.at.go
    THEN IF Skips(st.files, k) THEN Onward(st, k + 1)
         ELSE [st EXCEPT !.at.go = TRUE]
    ELSE LET done == [st EXCEPT
                         !.files = IF out = "ok"
                                   THEN Written(st.files, k,
                                                remote[k].content)
                                   ELSE st.files,
                         !.calls = Append(st.calls,
                                          [op |-> "download_file",
                                           key |-> k, res |-> out])]
         IN  IF out = "Exception"
             THEN [done EXCEPT !.result = "Exception", !.at = NotStarted]
             ELSE Onward(done, k + 1)

\* lines 129-137: a ClientError of the listing is logged, download()
\* returns; lines 139-141: any other exception is raised again
ListingFailed(out) == IF out = "ClientError" THEN "ok" ELSE "Exception"

\* mutant of MissingCredentials: download() goes on without credentials
NeverMissing(v) == FALSE

\* line 97 (objectstorage.py line 38)
MissingCredentials(v) == Falsy(v.access_key) \/ Falsy(v.secret_key)

\* a download() that ends at once with result r, having made the calls cs
Finished(files, cs, r) ==
    [files |-> files, calls |-> cs, result |-> r, at |-> NotStarted]

\* S3Downloader.download (lines 95-141), one step of it: at is where the
\* call stands, files are the files of the destination, cs the calls
\* made so far; the listing ends as env.listing and the transfer of key
\* k as env.object[k].  The first step tests the credentials and lists;
\* every later step is at a key that does not end with "/", the keys
\* that do are passed over by Onward (lines 116-117).
S3Download(v, at, files, cs, env) ==
    IF at # NotStarted
    THEN _download_object([files |-> files, calls |-> cs,
                           result |-> "none", at |-> at],
                          at.key, env.object[at.key])
    ELSE IF MissingCredentials(v) THEN Finished(files, <<>>, "ok")
    ELSE LET b == parse_bucket_from_model_url(v.model_uri, <<"s", "3">>)
             list == [op |-> "list_objects_v2", bucket |-> b.bucket,
                      prefix |-> b.prefix, res |-> env.listing]
         IN  IF env.listing # "ok"
             THEN Finished(files, <<list>>, ListingFailed(env.listing))
             ELSE Onward([files |-> files, calls |-> <<list>>,
                          result |-> "none", at |-> at], 1)


\* ------------------------------------ objectstorage.py, the OBS variant
\* lines 46-52, key k: getObject writes the file, answers with a status
\* above 300 (logged) or raises, which ends download()
ObsObject(st, k, out) ==
    LET done == [st EXCEPT
                    !.files = IF out = "ok"
                              THEN Written(st.files, k, remote[k].content)
                              ELSE st.files,
                    !.calls = Append(st.calls, [op |-> "getObject",
                                                key |-> k, res |-> out])]
    IN  IF out = "Exception"
        THEN [done EXCEPT !.result = "Exception", !.at = NotStarted]
        ELSE Onward(done, k + 1)

\* OBSDownloader.download (lines 36-56), one step of it; a response with
\* a status above 300 stands as "ClientError": after listObjects
\* download() logs and returns (lines 44-46)
ObsDownload(v, at, files, cs, env) ==
    IF at # NotStarted
    THEN ObsObject([files |-> files, calls |-> cs, result |-> "none",
                    at |-> at], at.key, env.object[at.key])
    ELSE IF MissingCredentials(v) THEN Finished(files, <<>>, "ok")
    ELSE LET b == parse_bucket_from_model_url(v.model_uri, <<"o", "b", "s">>)
             list == [op |-> "listObjects", bucket |-> b.bucket,
                      prefix |-> b.prefix, res |-> env.listing]
         IN  IF env.listing # "ok"
             THEN Finished(files, <<list>>, ListingFailed(env.listing))
             ELSE Onward([files |-> files, calls |-> <<list>>,
                          result |-> "none", at |-> at], 1)

\* ----------------------------------------- transfers by an external tool
\* The destination after snapshot_download, rsync or aws s3 sync has run
\* on it, `remote' being the files at the place the tool reads: a tool
\* that ended well has written every file of the source, a tool that
\* failed the files it got through (those env.object answers "ok" for);
\* files of the destination that the source does not have stay.  (The
\* tools leave a file alone that they find up to date; a file that the
\* destination and the source both have is a copy of the source's here,
\* so that writing it again changes nothing.)
Copied(files, env, ended_well) ==
    LET done == IF ended_well THEN DOMAIN remote
                ELSE {k \in DOMAIN remote : env.object[k] = "ok"}
    IN  [k \in DOMAIN files \cup done |->
            IF k \in done THEN remote[k].content ELSE files[k]]

\* --------------------------- huggingface.py, HuggingFaceDownloader.download
\* lines 20-33: snapshot_download of the repository into the destination,
\* every exception is raised again
HfDownload(v, files, env) ==
    Finished(Copied(files, env, env.listing = "ok"),
          <<[op |-> "snapshot_download", repo_id |-> v.model_uri,
             res |-> env.listing]>>,
          IF env.listing = "ok" THEN "ok" ELSE "Exception")


\* -------------------------------------------- pvc.py, the PVC variants
\* drop every "/" that follows a "/"
RECURSIVE Collapse(_)
Collapse(s) ==
    IF Len(s) < 2 THEN s
    ELSE IF s[1] = "/" /\ s[2] = "/" THEN Collapse(Tail(s))
    ELSE <<s[1]>> \o Collapse(Tail(s))

\* os.path.normpath of a path without "." and ".." components: repeated
\* slashes collapse, a trailing slash goes, exactly two leading slashes stay
NormPath(s) ==
    LET c == Collapse(s)
        t == IF Len(c) > 1 /\ c[Len(c)] = "/"
             THEN SubSeq(c, 1, Len(c) - 1) ELSE c
    IN  IF s = <<>> THEN <<".">>
        ELSE IF StartsWith(s, <<"/", "/">>)
                /\ ~StartsWith(s, <<"/", "/", "/">>)
        THEN <<"/">> \o t
        ELSE t

\* downloader/pvc.py line 13
MountPoint == <<"/", "m", "n", "t", "/", "p", "v", "c">>

\* Path(pvc_path).exists() and is_dir(), downloader/pvc.py line 20,
\* kthena/downloader/pvc.py lines 36-40: what the volume answers
Stat(src, env) ==
    [op |-> "stat", src |-> src, exists |-> env.exists,
     is_dir |-> env.is_dir]

\* downloader/pvc.py, PVCDownloader.download (lines 43-53) with
\* _copy_from_pvc (lines 16-38): the mount point is the source whatever
\* the url was; rsync copies it into the destination, it runs with
\* check=False, its exit status is not read
PvcDownload(v, files, env) ==
    LET src == NormPath(MountPoint)
    IN  IF ~env.exists \/ ~env.is_dir
        THEN Finished(files, <<Stat(src, env)>>, "FileNotFoundError")
        ELSE Finished(Copied(files, env, env.exit = 0),
                   <<Stat(src, env),
                     [op |-> "rsync", src |-> src, exit |-> env.exit]>>,
                   "ok")

\* kthena/downloader/pvc.py lines 78-86: the path after "pvc://", with a
\* leading slash, normalized; <<>> stands for the ValueError of line 81
_parse_pvc_path(source_path) ==
    LET path == From(source_path, 6)
    IN  IF path = <<>> THEN <<>>
        ELSE IF StartsWith(path, <<"/">>) THEN NormPath(path)
        ELSE NormPath(<<"/">> \o path)

\* kthena/downloader/pvc.py line 71
CopyFailed(code) == code # 0

\* kthena/downloader/pvc.py, PVCDownloader.download (lines 88-99) with
\* _copy_from_pvc (lines 33-76): no rsync without a path or without a
\* source directory, else rsync copies the source into the destination
KPvcDownload(v, files, env) ==
    LET src == _parse_pvc_path(v.model_uri)
    IN  IF src = <<>> THEN Finished(files, <<>>, "ValueError")
        ELSE IF ~env.exists \/ ~env.is_dir
        THEN Finished(files, <<Stat(src, env)>>, "FileNotFoundError")
        ELSE Finished(Copied(files, env, ~CopyFailed(env.exit)),
                   <<Stat(src, env),
                     [op |-> "rsync", src |-> src, exit |-> env.exit]>>,
                   IF CopyFailed(env.exit) THEN "SubprocessError" ELSE "ok")

\* ------------------ matrixinfer/downloader/s3.py, S3Downloader.download
\* lines 73-93: nothing without credentials; else aws s3 sync of
\* s3://bucket[/prefix] into the destination, a non-zero exit status
\* raises (lines 68-71)
SyncDownload(v, files, env) ==
    IF MissingCredentials(v) THEN Finished(files, <<>>, "ok")
    ELSE LET b == parse_bucket_from_model_url(v.model_uri, <<"s", "3">>)
         IN  Finished(Copied(files, env, env.exit = 0),
                   <<[op |-> "aws s3 sync", bucket |-> b.bucket,
                      prefix |-> b.prefix, exit |-> env.exit]>>,
                   IF env.exit # 0 THEN "Exception" ELSE "ok")

\* --------------- matrixinfer/downloader/base.py, the backend resolver
\* str.removeprefix
RemovePrefix(s, pre) == IF StartsWith(s, pre) THEN From(s, Len(pre)) ELSE s

\* get_downloader(source, config, max_workers), lines 74-103
mi_get_downloader(src, cfg, importable) ==
    IF StartsWith(src, S3Scheme) \/ StartsWith(src, ObsScheme)
    THEN IF importable
         THEN Downloader("matrixinfer.S3Downloader", src, cfg)
         ELSE Raised("RuntimeError")
    ELSE IF StartsWith(src, PvcScheme)
    THEN IF importable
         THEN Downloader("kthena.PVCDownloader", src, NoConfig)
         ELSE Raised("RuntimeError")
    ELSE IF StartsWith(src, HfScheme)
    THEN IF importable
         THEN Downloader("matrixinfer.HuggingFaceDownloader",
                         RemovePrefix(src, HfScheme), cfg)
         ELSE Raised("RuntimeError")
    ELSE Raised("ValueError")


\* ------------------------------------ downloader.py, download_model
\* what the storage client, the file system of the volume and the copy
\* tool answer during one download()
Env(listing, object, exists, is_dir, exit) ==
    [listing |-> listing, object |-> object, exists |-> exists,
     is_dir |-> is_dir, exit |-> exit]

\* the answers that matter to a downloader of the class of v
Envs(v) ==
    IF v.class \in {"S3Downloader", "OBSDownloader"}
    THEN {Env(l, o, TRUE, TRUE, 0) : l \in Outcomes, o \in [Keys -> Outcomes]}
    ELSE IF v.class \in {"HuggingFaceDownloader",
                         "matrixinfer.HuggingFaceDownloader"}
    THEN {Env(l, o, TRUE, TRUE, 0) :
             l \in {"ok", "Exception"}, o \in [Keys -> {"ok", "Exception"}]}
    ELSE IF v.class = "matrixinfer.S3Downloader"
    THEN {Env("ok", o, TRUE, TRUE, x) :
             o \in [Keys -> {"ok", "Exception"}], x \in {0, 1}}
    ELSE {Env("ok", o, e[1], e[2], x) :
             o \in [Keys -> {"ok", "Exception"}],
             e \in {<<FALSE, FALSE>>, <<TRUE, FALSE>>, <<TRUE, TRUE>>},
             x \in {0, 1}}

\* download(output_dir) of the downloader v, the next step of it
DownloadOf(v, at, files, cs, env) ==
    CASE v.class = "S3Downloader" -> S3Download(v, at, files, cs, env)
      [] v.class = "OBSDownloader" -> ObsDownload(v, at, files, cs, env)
      [] v.class = "HuggingFaceDownloader" -> HfDownload(v, files, env)
      [] v.class = "matrixinfer.HuggingFaceDownloader" ->
            HfDownload(v, files, env)
      [] v.class = "matrixinfer.S3Downloader" -> SyncDownload(v, files, env)
      [] v.class = "PVCDownloader" -> PvcDownload(v, files, env)
      [] v.class = "kthena.PVCDownloader" -> KPvcDownload(v, files, env)
      [] OTHER -> Finished(files, <<>>, "Exception")

\* the steps download() of the downloader of p can take next
Steps(p) ==
    {DownloadOf(variant[p], progress[p], local, calls[p], env) :
        env \in Envs(variant[p])}

\* what get_downloader raises
ResolveErrors == {"RuntimeError", "ValueError", "TypeError"}

\* what download() of the backends raises
DownloadErrors ==
    {"Exception", "FileNotFoundError", "SubprocessError", "ValueError"}

\* mutant of Failed: an exception of get_downloader is passed over
NeverFailed(v) == FALSE

\* downloader.py line 19: get_downloader raised instead of returning a
\* downloader; nothing catches the exception, it leaves download_model
Failed(v) == v.class \in ResolveErrors

\* downloader.py line 19: the call of get_downloader ends with v, the
\* downloader it returns or the exception it raises
Resolve(p, v) ==
    /\ pc[p] = "idle"
    /\ outcome[p] = "none"
    /\ variant[p] = NoVariant
    /\ variant' = [variant EXCEPT ![p] = v]
    /\ outcome' = IF Failed(v) THEN [outcome EXCEPT ![p] = v.class]
                  ELSE outcome
    /\ UNCHANGED <<fsVars, is_locked, lock_file, flocked, stop_renew_event,
                   threads, pc, ret, saw, pending, downloads, stop_event,
                   timeout, dir_exists, source, config, remote, local, calls,
                   progress>>

\* the caller constructs the S3Downloader of an s3:// source itself, with
\* the url and the credentials of the config
Construct(p) ==
    /\ StartsWith(source, S3Scheme)
    /\ Resolve(p, New("S3Downloader",
                      {"model_uri", "access_key", "secret_key"},
                      source, config))

\* a call with the positional arguments args of a function that takes
\* at least `least' and at most `most' of them: TypeError when the
\* number does not fit, the body does not run
Called(args, least, most, result) ==
    IF Len(args) < least \/ Len(args) > most THEN Raised("TypeError")
    ELSE result

\* the positional parameters of download_model of the class of v beside
\* self: output_dir and model_name (downloader/base.py line 44),
\* output_dir (matrixinfer/downloader/base.py line 44)
DownloadModelParams(v) == IF OfMatrixinfer(v) THEN 1 ELSE 2

\* downloader.py line 20: downloader.download_model(output_dir); a
\* download_model that takes a model name as well raises TypeError
\* before it does anything
JobStart(p) ==
    /\ variant[p] # NoVariant
    /\ ~Failed(variant[p])
    /\ IF Failed(Called(<<"output_dir">>, DownloadModelParams(variant[p]),
                        DownloadModelParams(variant[p]), variant[p]))
       THEN /\ pc[p] = "idle"
            /\ outcome[p] = "none"
            /\ outcome' = [outcome EXCEPT ![p] = "TypeError"]
            /\ UNCHANGED <<fsVars, is_locked, lock_file, flocked,
                           stop_renew_event, threads, pc, ret, saw, pending,
                           downloads, stop_event, timeout, dir_exists,
                           jobVars>>
       ELSE DM_Once(p)

\* download_model(source, output_dir, config) of downloader.py, once per
\* caller: line 19 calls the resolver with three arguments, the one of
\* downloader/base.py (line 71: url, config) or the one of
\* matrixinfer/downloader/base.py (line 74: source, config, max_workers)
Job(p) ==
    \/ \E ok \in BOOLEAN :
          Resolve(p, Called(<<source, config, MaxWorkers>>, 2, 2,
                            get_downloader(source, config, ok)))
    \/ \E ok \in BOOLEAN :
          Resolve(p, Called(<<source, config, MaxWorkers>>, 2, 3,
                            mi_get_downloader(source, config, ok)))
    \/ JobStart(p)
    \/ DM_TryAcquire(p)
    \/ DM_Run(p, Steps(p))
    \/ DM_Release(p)
    \/ DM_Exit(p)

NextJob ==
    \/ \E p \in Callers : Job(p)
    \/ \E p \in Procs : Renewal(p)
    \/ Tick
    \/ Lapse

\* download_model of a downloader, called with the arguments it takes
DirectStart(p) ==
    /\ variant[p] # NoVariant
    /\ ~Failed(variant[p])
    /\ DM_Once(p)

\* the callers work on one destination directory and one lock file, so
\* the downloader v of p and the downloaders of the others are of one
\* package: download_model of downloader/base.py works in
\* <output_dir>/<model_name> with the lock file .<model_name>.lock (lines
\* 45-47), the one of matrixinfer/downloader/base.py in <output_dir>
\* with the lock file .lock (lines 45-46)
OnePackage(p, v) ==
    \A q \in Callers \ {p} :
        (variant[q] # NoVariant /\ ~Failed(variant[q]) /\ ~Failed(v))
        => (OfMatrixinfer(variant[q]) <=> OfMatrixinfer(v))

\* a caller that uses a package without downloader.py: it calls the
\* resolver of the package with the source and the config, or constructs
\* the S3Downloader, and calls download_model of the downloader
Direct(p) ==
    \/ \E ok \in BOOLEAN :
          /\ OnePackage(p, get_downloader(source, config, ok))
          /\ Resolve(p, get_downloader(source, config, ok))
    \/ \E ok \in BOOLEAN :
          /\ OnePackage(p, mi_get_downloader(source, config, ok))
          /\ Resolve(p, mi_get_downloader(source, config, ok))
    \/ /\ OnePackage(p, [NoVariant EXCEPT !.class = "S3Downloader"])
       /\ Construct(p)
    \/ DirectStart(p)
    \/ DM_TryAcquire(p)
    \/ DM_Run(p, Steps(p))
    \/ DM_Release(p)
    \/ DM_Exit(p)

NextDirect ==
    \/ \E p \in Callers : Direct(p)
    \/ \E p \in Procs : Renewal(p)
    \/ Tick
    \/ Lapse

\* sources of one job each: a bucket with a prefix, a volume path, a
\* repository, with and without scheme
Bucket == <<"b", "/", "k">>
JobSources ==
    {S3Scheme \o Bucket, ObsScheme \o Bucket, PvcScheme \o <<"m">>,
     HfScheme \o <<"r">>, <<"r">>}

\* credentials: both keys, the secret key missing, the access key empty
Creds == [access_key |-> "ak", secret_key |-> "sk"]
NoSecret == [access_key |-> "ak"]
EmptyAccess == [access_key |-> "", secret_key |-> "sk"]

\* keys under the prefix k: an object, a directory marker
ObjectKey == <<"k", "/", "o">>
MarkerKey == <<"k", "/", "d", "/">>

\* the bucket holds one object under the prefix, of content "a"
OneObject ==
    [k \in {1} |-> [key |-> ObjectKey, content |-> "a", parts |-> "0"]]

JobInit ==
    /\ InitLock
    /\ timeout = [p \in Procs |-> Timeout]
    /\ source \in JobSources
    /\ config \in {Creds, NoSecret, EmptyAccess}
    /\ variant = [p \in Procs |-> NoVariant]
    /\ remote = OneObject
    /\ local = NoFiles
    /\ calls = [p \in Procs |-> <<>>]
    /\ progress = [p \in Procs |-> NotStarted]

JobSpec == JobInit /\ [][NextJob]_vars

DirectSpec == JobInit /\ [][NextDirect]_vars


\* ------------------------- S3Downloader.download, run again and again
\* what the bucket may hold under the prefix, in the order of the listing:
\* up to MaxKeys objects or directory markers, the objects uploaded in one
\* part or in two
Remotes ==
    UNION {[1..n -> [key : {ObjectKey, MarkerKey}, content : Contents,
                     parts : {"0", "2"}]] : n \in 0..MaxKeys}

\* what the destination may hold of the objects of r from earlier runs
Locals(r) ==
    UNION {[ks -> Contents] :
              ks \in SUBSET {k \in DOMAIN r : ~EndsWithSlash(r[k].key)}}

\* the downloaders of an object-store variant are constructed, all for
\* one source, the destination holds some files
SyncInit ==
    /\ InitLock
    /\ timeout = [p \in Procs |-> Timeout]
    /\ config = Creds
    /\ \/ /\ source = S3Scheme \o Bucket
          /\ variant = [p \in Procs |->
                           New("S3Downloader",
                               {"model_uri", "access_key", "secret_key"},
                               source, config)]
       \/ /\ source = ObsScheme \o Bucket
          /\ variant = [p \in Procs |->
                           New("OBSDownloader",
                               {"model_uri", "access_key", "secret_key"},
                               source, config)]
    /\ remote \in Remotes
    /\ local \in Locals(remote)
    /\ calls = [p \in Procs |-> <<>>]
    /\ progress = [p \in Procs |-> NotStarted]

\* download(output_dir) of the downloader of p, called directly: the
\* call, or the next step of the call that is running
Fetch(p) ==
    /\ pending[p] = "none"
    /\ variant[p] # NoVariant
    /\ ~Failed(variant[p])
    /\ \E d \in Steps(p) :
          /\ pending' = [pending EXCEPT ![p] = d.result]
          /\ local' = d.files
          /\ calls' = [calls EXCEPT ![p] = d.calls]
          /\ progress' = [progress EXCEPT ![p] = d.at]
    /\ UNCHANGED <<fsVars, is_locked, lock_file, flocked, stop_renew_event,
                   threads, pc, ret, saw, outcome, downloads, stop_event,
                   timeout, dir_exists, source, config, variant, remote>>

\* the caller has seen the result and is ready to call download() again
Again(p) ==
    /\ pending[p] # "none"
    /\ pending' = [pending EXCEPT ![p] = "none"]
    /\ calls' = [calls EXCEPT ![p] = <<>>]
    /\ UNCHANGED <<fsVars, is_locked, lock_file, flocked, stop_renew_event,
                   threads, pc, ret, saw, outcome, downloads, stop_event,
                   timeout, dir_exists, source, config, variant, remote,
                   local, progress>>

NextSync ==
    \/ \E p \in Callers : Fetch(p)
    \/ \E p \in Callers : Again(p)

SyncSpec == SyncInit /\ [][NextSync]_vars


\* ------------------------------- get_downloader and download() on sources
\* the characters of the part of a source after its scheme
Alphabet == {"b", "k", "/"}
Rests == UNION {[1..n -> Alphabet] : n \in 0..MaxLen}

\* sources with each scheme and with none
Sources ==
    {sch \o r : sch \in {S3Scheme, ObsScheme, PvcScheme, HfScheme, <<>>},
                r \in Rests}

ResolveInit ==
    /\ InitLock
    /\ timeout = [p \in Procs |-> Timeout]
    /\ source \in Sources
    /\ config \in {Creds, NoSecret, EmptyAccess, NoConfig}
    /\ variant = [p \in Procs |-> NoVariant]
    /\ remote = OneObject
    /\ local = NoFiles
    /\ calls = [p \in Procs |-> <<>>]
    /\ progress = [p \in Procs |-> NotStarted]

\* a caller resolves the source with the resolver of either package and
\* calls download() of the downloader it got
NextResolve ==
    \/ \E p \in Callers : \E ok \in BOOLEAN :
          Resolve(p, get_downloader(source, config, ok))
    \/ \E p \in Callers : \E ok \in BOOLEAN :
          Resolve(p, mi_get_downloader(source, config, ok))
    \/ \E p \in Callers : Construct(p)
    \/ \E p \in Callers : Fetch(p)

ResolveSpec == ResolveInit /\ [][NextResolve]_vars


TypeOK ==
    /\ inode_at \in [Paths -> 0..(NumProcs + NumPaths)]
    /\ age_at \in [Paths -> 0..MaxAge]
    /\ content_at \in [Paths -> 0..NumProcs]
    /\ \A x \in Paths : inode_at[x] = 0 => content_at[x] = 0 /\ age_at[x] = 0
    /\ \A x \in Paths : \A y \in Paths \ {x} :
          inode_at[x] # 0 => inode_at[x] # inode_at[y]
    /\ lock_path \in [Procs -> Paths]
    /\ is_locked \in [Procs -> BOOLEAN]
    /\ lock_file \in [Procs -> 0..(NumProcs + NumPaths)]
    /\ flocked \in [Procs -> BOOLEAN]
    /\ stop_renew_event \in [Procs -> BOOLEAN]
    /\ threads \in [Procs -> [Positions -> 0..MaxThreads]]
    /\ \A p \in Procs : Live(threads[p]) <= MaxThreads
    /\ ret \in [Procs -> {"none", "true", "false"}]
    /\ saw \in [Procs -> {"none", "missing", "expired"}]
    /\ pending \in [Procs -> {"none", "ok"} \cup Errors \cup DownloadErrors]
    /\ outcome \in [Procs -> {"none", "ok", "LockError"} \cup Errors
                                \cup DownloadErrors \cup ResolveErrors]
    /\ downloads \in [Procs -> Nat]
    /\ stop_event \in [Procs -> BOOLEAN]
    /\ timeout \in [Procs -> Nat]
    /\ dir_exists \in BOOLEAN
    /\ DOMAIN config \subseteq {"access_key", "secret_key"}
    /\ \A p \in Procs :
          variant[p].class \in {"none", "S3Downloader", "OBSDownloader",
                                "PVCDownloader", "HuggingFaceDownloader",
                                "matrixinfer.S3Downloader",
                                "matrixinfer.HuggingFaceDownloader",
                                "kthena.PVCDownloader"} \cup ResolveErrors
    /\ DOMAIN remote \subseteq Keys
    /\ \A k \in DOMAIN remote : remote[k].key \in {ObjectKey, MarkerKey}
    /\ DOMAIN local \subseteq DOMAIN remote
    /\ \A k \in DOMAIN local : local[k] \in Contents
    /\ \A p \in Procs : Len(calls[p]) <= MaxKeys + 1
    /\ progress \in [Procs -> [key : 0..MaxKeys, go : BOOLEAN]]
    /\ \A p \in Procs : progress[p] # NotStarted => pending[p] = "none"

\* ---------------------------------------------------------------- properties
\* the file at the path the managers share
path_ino == inode_at[SharedPath]
age == age_at[SharedPath]
content == content_at[SharedPath]


InTryAcquire(p) == pc[p] \in {"ta_mtime", "ta_open", "ta_chmod", "ta_flock",
                           "ta_utime"}
InRelease(p) == pc[p] \in {"rl_unlock", "rl_exists", "rl_remove"}

\* try_acquire of p returns in this step
Returns(p) == ret'[p] # ret[p] /\ ret'[p] # "none"

\* release of p returns in this step, p having held the lease
Released(p) == InRelease(p) /\ ~InRelease(p)'

\* C1 - mutual exclusion at acquire: while manager a has acquired the lease
\* (its try_acquire returned True) and has not called release, a try_acquire
\* of another manager b on the path returns False and leaves b unlocked.
C1_AcquireFailsWhileHeld ==
    [][\A a \in Procs : \A b \in Procs \ {a} :
          (/\ is_locked[a] /\ pc[a] = "idle"
           /\ ~is_locked[b]
           /\ Returns(b))
          => (ret'[b] = "false" /\ ~is_locked'[b])]_vars

\* C2 - lease invariant: in every reachable state at most one manager has
\* is_locked True for the path.
C2_AtMostOneLocked ==
    Cardinality({p \in Procs : is_locked[p]}) <= 1
\* C3 - exclusive fetch: at every instant at most one download_model
\* invocation on the destination is executing download(), and an invocation
\* executes download() only while its own manager is locked.
C3_ExclusiveFetch ==
    /\ Cardinality({p \in Procs : pc[p] = "dm_download"}) <= 1
    /\ \A p \in Procs : pc[p] = "dm_download" => is_locked[p]

\* C5 - end-to-end serialization: a try_acquire of one invocation that
\* returns while another invocation is fetching returns False, and it
\* returns True only after the other invocation's release() has completed
\* (that manager is unlocked again).
C5_AcquireOnlyAfterRelease ==
    [][\A a \in Procs : \A b \in Procs \ {a} :
          (~is_locked[b] /\ Returns(b))
          => /\ pc[a] = "dm_download" => ret'[b] = "false"
             /\ ret'[b] = "true" => ~is_locked[a]]_vars

\* C7 - renewal keeps the lease alive: while manager a holds the lease with
\* its renewal thread running (however long ago it acquired), every
\* try_acquire of a competing manager on the path returns False.
C7_RenewedLeaseRefusesCompetitors ==
    [][\A a \in Procs : \A b \in Procs \ {a} :
          (/\ is_locked[a] /\ pc[a] = "idle"
           /\ Live(threads[a]) > 0 /\ ~stop_renew_event[a]
           /\ ~is_locked[b]
           /\ Returns(b))
          => ret'[b] = "false"]_vars

\* C10 - the advisory lock closes the check-then-create race: two
\* try_acquire calls that are in progress at the same time, both past the
\* existence / expiry check, never both own the advisory lock (and so never
\* both return True).
C10_FlockClosesRace ==
    \A a \in Procs : \A b \in Procs \ {a} :
        ~(/\ pc[a] = "ta_utime" /\ flocked[a]
          /\ pc[b] = "ta_utime" /\ flocked[b])
\* C4 - release on every exit path: when download_model has acquired the
\* lease, its release() leaves the lock path without a file when it
\* returns, and when control goes back to the caller (download() having
\* returned or raised) the manager is unlocked, its file is closed, its
\* advisory lock is gone and its renewal thread has been signalled.
C4_ReleasedOnEveryExit ==
    [][\A p \in Procs :
          /\ (Released(p) /\ pc'[p] = "dm_exit") => path_ino' = 0
          /\ (pc[p] = "dm_exit" /\ pc'[p] = "idle")
             => (/\ ~is_locked'[p]
                 /\ stop_renew_event'[p]
                 /\ lock_file'[p] = 0
                 /\ ~flocked'[p])]_vars

\* download_model of some process has acquired, download() raised, and
\* control is back at the caller with the lease released
C4_Witness ==
    \E p \in Procs :
        /\ pc[p] = "idle" /\ outcome[p] \in Errors
        /\ ~is_locked[p] /\ stop_renew_event[p] /\ path_ino = 0

\* C6 - fetch errors are fatal and not retried: when download() raised E,
\* download_model raises the same E once the lease is released and does not
\* loop again; download() runs at most once per download_model call.
C6_FetchErrorFatal ==
    /\ [][\A p \in Procs :
             (/\ pc[p] = "dm_exit" /\ pending[p] \in Errors
              /\ pc'[p] \notin {"dm_exit", "rl_unlock"})
             => (/\ pc'[p] = "idle"
                 /\ outcome'[p] = pending[p]
                 /\ ~is_locked[p] /\ lock_file[p] = 0)]_vars
    /\ [](\A p \in Procs : downloads[p] <= 1)

\* a download_model call ended by raising E2 after its single download(),
\* while another invocation has been polling (its try_acquire failed)
C6_Witness ==
    \E p \in Procs : \E q \in Procs \ {p} :
        /\ pc[p] = "idle" /\ outcome[p] = "E2" /\ downloads[p] = 1
        /\ ret[q] = "false"
\* what a try_acquire of the unlocked manager b returns when it runs from
\* the current state with no step of another manager or thread in between
AcquireAlone(b) ==
    LET passes == path_ino = 0 \/ ~NotExpired(age, timeout[b])
        ino == IF path_ino = 0 THEN FreshIno ELSE path_ino
        busy == \E q \in Procs \ {b} : lock_file[q] = ino /\ flocked[q]
    IN  passes /\ ~busy

\* C8 as stated - expiry/steal: in any state where the lock file exists and
\* its modification time is more than timeout in the past, a try_acquire of
\* a new manager returns True.  (Stated for the states in which no method
\* is in progress.)
C8_ExpiredIsAcquirable ==
    (path_ino # 0 /\ age > Timeout /\ \A p \in Procs : pc[p] = "idle")
    => \A b \in Procs : ~is_locked[b] => AcquireAlone(b)

\* C8 amended - a try_acquire whose check finds the lock file existing with
\* a modification time more than timeout in the past is not refused by the
\* check and keeps the file (no removal); it returns True and its manager
\* becomes the holder, unless the path names no file at its chmod step or
\* at its utime step, or at its flock step another manager owns the
\* advisory lock on the file, in which cases it returns False and stays
\* unlocked.
C8_StealUnlessLockHeld ==
    [][\A b \in Procs :
          /\ (/\ pc[b] = "ta_mtime"
              /\ path_ino # 0 /\ age > Timeout
              /\ pc'[b] # pc[b])
             => (/\ pc'[b] = "ta_open" /\ saw'[b] = "expired"
                 /\ path_ino' = path_ino)
          /\ (saw[b] = "expired" /\ pc[b] = "ta_open" /\ pc'[b] # pc[b]
              /\ path_ino # 0)
             => path_ino' = path_ino
          /\ (saw[b] = "expired" /\ Returns(b))
             => IF \/ pc[b] = "ta_chmod" /\ path_ino = 0
                   \/ pc[b] = "ta_flock" /\ FlockBusy(b)
                   \/ pc[b] = "ta_utime" /\ path_ino = 0
                THEN ret'[b] = "false" /\ ~is_locked'[b]
                ELSE ret'[b] = "true" /\ is_locked'[b] /\ path_ino' # 0]_vars

\* a manager holds a lease it took over from an expired lock file
C8_Witness ==
    \E b \in Procs :
        /\ is_locked[b] /\ pc[b] = "idle" /\ saw[b] = "expired"
        /\ lock_file[b] = path_ino /\ flocked[b]

\* C9 - release is terminal: when release() returns on a manager that held
\* the lease, the lock path names no file, the manager is unlocked, and a
\* try_acquire of any unlocked manager that runs next returns True.
C9_ReleaseIsTerminal ==
    [][\A a \in Procs :
          Released(a)
          => (/\ path_ino' = 0
              /\ ~is_locked'[a]
              /\ \A b \in Procs :
                    (~is_locked'[b] /\ pc'[b] = "idle") => AcquireAlone(b)')]_vars

\* a manager has released (its stop event is still set, it is unlocked and
\* idle), the path names no file, and the other managers are idle
C9_Witness ==
    \E a \in Procs :
        /\ pc[a] = "idle" /\ ~is_locked[a] /\ stop_renew_event[a]
        /\ ret[a] = "none" /\ path_ino = 0
        /\ \A b \in Procs \ {a} : pc[b] = "idle" /\ ~is_locked[b]

\* C11 - renewal is stopped before the lease is released: when release()
\* gives up the advisory lock the renewal thread has been signalled and has
\* stopped, and when release() returns the manager has no live renewal
\* thread (so none that could refresh the lock path again).
C11_RenewalStoppedBeforeRelease ==
    [][\A p \in Procs :
          /\ (pc[p] = "rl_unlock" /\ pc'[p] # pc[p])
             => (stop_renew_event[p] /\ Live(threads[p]) = 0)
          /\ Released(p) => Live(threads'[p]) = 0]_vars

\* the try_acquire of p ends in this step
AcquireEnds(p) ==
    \/ InTryAcquire(p) /\ ~InTryAcquire(p)'
    \/ pc[p] = "idle" /\ Returns(p)

\* C12 - acquisition failures are contained: with an I/O error possible at
\* every step of try_acquire, a try_acquire always ends by returning to its
\* caller, with True or False; it returns True only as the holder, and after
\* every other ending (a refusal or an I/O error at any step, the start of
\* the renewal included) it has returned False and is_locked is False.
C12_AcquireFailuresContained ==
    [][\A p \in Procs :
          AcquireEnds(p)
          => (/\ pc'[p] = "idle"
              /\ ret'[p] \in {"true", "false"}
              /\ ret'[p] = "true" <=> is_locked'[p]
              /\ ret'[p] = "false" => lock_file'[p] = 0)]_vars

\* a try_acquire failed after it had created the lock file: the manager is
\* unlocked and has returned False, the file is there and nobody holds it
C12_Witness ==
    \E p \in Procs :
        /\ pc[p] = "idle" /\ ret[p] = "false" /\ ~is_locked[p]
        /\ path_ino # 0 /\ age = 0
        /\ \A q \in Procs : pc[q] = "idle" /\ ~is_locked[q] /\ lock_file[q] = 0

\* the file the running try_acquire of p has created at the path (its check
\* found none and its open found none either), 0 when it has created none
Created(p) ==
    IF saw[p] # "missing" THEN 0
    ELSE IF pc[p] = "ta_open" THEN (IF path_ino = 0 THEN path_ino' ELSE 0)
    ELSE lock_file[p]

\* C13 - partial state is cleaned up on a failed acquisition: when a
\* try_acquire ends with False after an I/O error part-way through, the
\* manager has no open file and no advisory lock, and a lock file that the
\* attempt created is not left at the path (so that it cannot make later
\* acquirers fail the existence check).
C13_FailedAcquireLeavesNothing ==
    [][\A p \in Procs :
          (AcquireEnds(p) /\ ret'[p] = "false" /\ InTryAcquire(p))
          => (/\ lock_file'[p] = 0 /\ ~flocked'[p]
              /\ Created(p) # 0 => path_ino' # Created(p))]_vars

\* C14 - release is idempotent and tolerant: a release() on a manager that
\* is not locked (never acquired, or released before) returns at once and
\* changes neither the manager nor the file system; a release() of a holder
\* always returns to its caller with is_locked False, also when the lock
\* file has been removed from outside meanwhile.
C14_ReleaseIdempotentTolerant ==
    [][\A p \in Procs :
          /\ (pc[p] = "idle" /\ ~is_locked[p]
              /\ pc'[p] \in {"released", "rl_unlock"})
             => (/\ pc'[p] = "released"
                 /\ UNCHANGED <<fsVars, is_locked, lock_file, flocked,
                                stop_renew_event, threads, ret, saw>>)
          /\ Released(p) => (pc'[p] = "released" /\ ~is_locked'[p])]_vars

\* a manager that never held the lease has returned from release(), and a
\* holder's release() finds that the lock file is gone although nobody
\* else has removed it
C14_Witness ==
    \E p \in Procs : \E q \in Procs \ {p} :
        /\ pc[p] = "released" /\ ~is_locked[p] /\ ret[p] = "none"
        /\ ~stop_renew_event[p]
        /\ pc[q] = "rl_exists" /\ is_locked[q] /\ path_ino = 0

\* C15 - release failures are contained: when os.remove fails in release()
\* (the step that follows the removal leaves the file at the path),
\* release() still returns to its caller, the advisory lock is released,
\* the file handle is closed and the manager is unlocked.
C15_ReleaseFailuresContained ==
    [][\A p \in Procs :
          (pc[p] = "rl_remove" /\ pc'[p] # "rl_remove" /\ path_ino' # 0)
          => (/\ pc'[p] = "idle"
              /\ ~is_locked'[p]
              /\ lock_file'[p] = 0 /\ ~flocked'[p])]_vars

\* a manager has released (signalled, unlocked, closed) and the lock file
\* is still at the path although no other manager has ever acquired or
\* failed to acquire
C15_Witness ==
    \E p \in Procs :
        /\ pc[p] = "idle" /\ ~is_locked[p] /\ stop_renew_event[p]
        /\ ret[p] = "none" /\ lock_file[p] = 0 /\ path_ino # 0
        /\ \A q \in Procs \ {p} :
              /\ pc[q] = "idle" /\ ~is_locked[q] /\ ret[q] = "none"
              /\ ~stop_renew_event[q]

\* C16 - renewal never re-creates the lock file: a step of a renewal
\* thread leaves the path naming what it named; when the file is gone while
\* the lease is held, the refresh of the holder's thread only goes on to
\* the next wait; and in that situation the try_acquire of another,
\* unlocked manager that runs next succeeds.
C16_RenewNeverRecreates ==
    [][\A a \in Procs :
          /\ threads'[a] # threads[a] => path_ino' = path_ino
          /\ (/\ threads'[a]["touch"] < threads[a]["touch"]
              /\ is_locked[a] /\ path_ino = 0)
             => (/\ threads'[a]["wait"] > 0
                 /\ path_ino' = 0
                 /\ \A b \in Procs \ {a} :
                       (~is_locked'[b] /\ pc'[b] = "idle")
                       => AcquireAlone(b)')]_vars

\* the holder's renewal thread waits while the path names the file of a
\* second manager, which acquired after the holder's file had been removed
C16_Witness ==
    \E a \in Procs : \E b \in Procs \ {a} :
        /\ is_locked[a] /\ pc[a] = "idle" /\ flocked[a]
        /\ threads[a] = [NoThreads EXCEPT !["wait"] = 1]
        /\ ~stop_renew_event[a]
        /\ is_locked[b] /\ pc[b] = "idle" /\ flocked[b]
        /\ lock_file[b] = path_ino /\ lock_file[a] # path_ino

\* C17 - scoped acquisition: the try_acquire of __enter__ is the only one;
\* when it returns False, LockError is raised at once and the body has not
\* run; when it returns True the body runs with the manager locked
\* throughout, release() runs however the body ends, the lock path names
\* no file when that release() returns, and the statement ends as the
\* body ended.
C17_ScopedAcquisition ==
    /\ [][\A p \in Procs :
             /\ (Returns(p) /\ ret'[p] = "false") => pc'[p] = "with_fail"
             /\ (Returns(p) /\ ret'[p] = "true") => pc'[p] = "with_body"
             /\ (pc[p] = "with_fail" /\ pc'[p] # pc[p])
                => (/\ pc'[p] = "idle" /\ outcome'[p] = "LockError"
                    /\ pending[p] = "none" /\ ~is_locked[p])
             /\ (pc[p] = "with_body" /\ pc'[p] # pc[p])
                => (pc'[p] = "with_exit" /\ pending'[p] # "none")
             /\ (pc[p] = "with_exit" /\ pc'[p] # pc[p])
                => pc'[p] = "rl_unlock"
             /\ Released(p)
                => (pc'[p] = "with_done" /\ path_ino' = 0 /\ ~is_locked'[p])
             /\ (pc[p] = "with_done" /\ pc'[p] # pc[p])
                => (pc'[p] = "idle" /\ outcome'[p] = pending[p])]_vars
    /\ [](\A p \in Procs :
             pc[p] \in {"with_body", "with_exit"} => is_locked[p])

\* one statement has ended with the exception its body raised, the lock
\* file gone, and another one has ended with LockError, its body never run
C17_Witness ==
    \E p \in Procs : \E q \in Procs \ {p} :
        /\ pc[p] = "idle" /\ outcome[p] = "E1" /\ ~is_locked[p]
        /\ pc[q] = "idle" /\ outcome[q] = "LockError" /\ ~is_locked[q]
        /\ path_ino = 0

\* the state of manager p in the lock state machine
Phase(p) ==
    IF InTryAcquire(p) THEN "Acquiring"
    ELSE IF InRelease(p) THEN "Releasing"
    ELSE IF is_locked[p] THEN "Held"
    ELSE "Unheld"

PhaseMoves ==
    {<<"Unheld", "Acquiring">>, <<"Acquiring", "Held">>,
     <<"Acquiring", "Unheld">>, <<"Held", "Releasing">>,
     <<"Releasing", "Unheld">>}

\* C18 - lock state machine: a manager only moves Unheld -> Acquiring ->
\* Held -> Releasing -> Unheld, or from Acquiring back to Unheld; is_locked
\* becomes True only in the step in which try_acquire returns True and
\* becomes False only in the step in which release() returns, so it is
\* True exactly from the one to the other, and no step of the environment
\* (the removal of the lock file) or of another manager changes it.
C18_LockStateMachine ==
    /\ [][\A p \in Procs :
             /\ Phase(p)' # Phase(p) => <<Phase(p), Phase(p)'>> \in PhaseMoves
             /\ (InTryAcquire(p) /\ ~InTryAcquire(p)')
                => (is_locked'[p] <=> ret'[p] = "true")
             /\ (~is_locked[p] /\ is_locked'[p])
                => (pc[p] = "ta_utime" /\ ret'[p] = "true")
             /\ (is_locked[p] /\ ~is_locked'[p])
                => (InRelease(p) /\ pc'[p] = "released")
             /\ (path_ino # 0 /\ path_ino' = 0 /\ pc'[p] = pc[p])
                => is_locked'[p] = is_locked[p]]_vars
    /\ [](\A p \in Procs :
             /\ InTryAcquire(p) => ~is_locked[p]
             /\ InRelease(p) => is_locked[p])

\* a manager is Held, back from a successful try_acquire, while the path
\* names no file and the other managers have done nothing
C18_Witness ==
    \E p \in Procs :
        /\ Phase(p) = "Held" /\ ret[p] = "true" /\ path_ino = 0
        /\ \A q \in Procs \ {p} :
              /\ pc[q] = "idle" /\ ~is_locked[q] /\ ret[q] = "none"
              /\ ~stop_renew_event[q]

\* C19 - acquisition retry and cancellation: when the try_acquire of a
\* download_model call returns False, the call goes back to the head of
\* its polling loop for another attempt as long as its stop_event is not
\* set, and leaves the polling loop once stop_event is set; with stop_event
\* set, the call makes no further attempt from the head of the loop.
C19_RetryUntilCancelled ==
    [][\A p \in Procs :
          /\ (Returns(p) /\ ret'[p] = "false")
             => IF stop_event[p] THEN pc'[p] # "dm_loop"
                ELSE pc'[p] = "dm_loop"
          /\ (stop_event[p] /\ pc[p] = "dm_loop" /\ pc'[p] # pc[p])
             => pc'[p] = "idle"]_vars

\* the lease is orphaned: a holder has crashed and no live process holds
\* or is about to hold the lease
Orphaned ==
    /\ \E h \in Procs : pc[h] = "crashed"
    /\ path_ino # 0
    /\ \A q \in Procs : ~is_locked[q] /\ ~InTryAcquire(q)

\* C20 - a crashed holder's lease ages out: when the lease is orphaned and
\* the lock file is at least timeout old, the try_acquire of a polling
\* download_model call that runs next succeeds; and whenever the lease is
\* orphaned while some call is polling, eventually some call is in its
\* fetch.
C20_CrashedLeaseAgesOut ==
    /\ [](\A b \in Procs :
             (Orphaned /\ ~NotExpired(age, timeout[b]) /\ pc[b] = "dm_loop")
             => AcquireAlone(b))
    /\ ((Orphaned /\ \E b \in Procs : pc[b] = "dm_loop")
        ~> (\E b \in Procs : pc[b] = "dm_download"))

\* a call is in its fetch with the lease it took over from a crashed
\* holder's expired lock file
C20_Witness ==
    \E h \in Procs : \E b \in Procs \ {h} :
        /\ pc[h] = "crashed"
        /\ pc[b] = "dm_download" /\ is_locked[b] /\ saw[b] = "expired"
        /\ lock_file[b] = path_ino


\* the lease of p is held and renewed: p is between a successful
\* try_acquire and release, its renewal thread is running and has not been
\* told to stop, and the lock path names the file p holds open
RenewedLease(p) ==
    /\ is_locked[p] /\ pc[p] = "idle" /\ ret[p] = "true"
    /\ Live(threads[p]) > 0 /\ ~stop_renew_event[p]
    /\ lock_file[p] # 0 /\ lock_file[p] = path_ino

\* C21 - renewal interval below timeout: for every manager, whatever
\* timeout of the orchestrators it was constructed with, the renewal
\* interval is shorter than the timeout, so while the holder's renewal
\* thread is running the age of the lock file stays below the timeout.
C21_RenewalOutpacesTimeout ==
    \A p \in Procs : RenewedLease(p) => age < timeout[p]


\* the download_model call of p is past makedirs and has not ended
InDownloadModel(p) ==
    pc[p] \in {"dm_loop", "ta_mtime", "ta_open", "ta_chmod", "ta_flock",
               "ta_utime", "dm_download", "dm_finally", "rl_unlock",
               "rl_exists", "rl_remove", "dm_exit"}

\* C22 - destination before transfer: download_model creates the
\* destination directory before it constructs or acquires the lease and
\* before download() runs, so the directory exists in every state of the
\* call from the first try_acquire on, a transfer in progress included,
\* and whenever the lock file exists it is in that existing directory.
C22_DestinationBeforeTransfer ==
    /\ \A p \in Procs : InDownloadModel(p) => dir_exists
    /\ path_ino # 0 => dir_exists

\* a transfer is in progress, the lock file in place
C22_Witness ==
    \E p \in Procs : pc[p] = "dm_download" /\ path_ino # 0 /\ dir_exists


\* the downloader of p is an object-store variant
ObjectStore(p) == variant[p].class \in {"S3Downloader", "OBSDownloader"}

\* a call of the storage client failed during the download() of p
StorageError(p) == \E i \in 1..Len(calls[p]) : calls[p][i].res # "ok"

\* C23 - storage errors fail the fetch: when a call of the storage client
\* fails during an object-store download(), for the listing or for one
\* object, download() raises, download_model raises to its caller, and
\* download() is not run again.
C23_StorageErrorsFail ==
    \A p \in Procs :
        (ObjectStore(p) /\ StorageError(p))
        => /\ pending[p] # "ok"
           /\ outcome[p] # "ok"
           /\ downloads[p] <= 1


\* the downloader of p needs credentials and the job's configuration lacks
\* the access key or the secret key (absent or empty)
LacksCredentials(p) ==
    /\ variant[p].class \in {"S3Downloader", "OBSDownloader",
                             "matrixinfer.S3Downloader"}
    /\ \E k \in {"access_key", "secret_key"} :
          k \notin DOMAIN config \/ config[k] = ""

\* C24 - missing credentials are a silent no-op: without access key or
\* secret key the object-store download() returns without any listing or
\* transfer call, and download_model ends normally with the lease released.
C24_MissingCredentialsNoOp ==
    \A p \in Procs :
        LacksCredentials(p)
        => /\ calls[p] = <<>>
           /\ pending[p] \in {"none", "ok"}
           /\ outcome[p] \in {"none", "ok"}
           /\ outcome[p] = "ok"
              => (~is_locked[p] /\ lock_file[p] = 0 /\ ~flocked[p])

\* a job without the secret key has run download() and ended normally
C24_Witness ==
    \E p \in Procs :
        /\ LacksCredentials(p) /\ downloads[p] = 1
        /\ outcome[p] = "ok" /\ ~is_locked[p]


\* download() of p comes to object k in this step: the S3 variant looks
\* at the destination, the OBS variant asks the store at once
ComesTo(p, k) ==
    /\ progress[p] = [key |-> k, go |-> FALSE]
    /\ progress'[p] # progress[p]

\* download() of p asks the store for object k in this step
Transfers(p, k) ==
    /\ Len(calls'[p]) = Len(calls[p]) + 1
    /\ calls'[p][Len(calls'[p])].op \in {"download_file", "getObject"}
    /\ calls'[p][Len(calls'[p])].key = k

\* download() of p, coming to object k, transfers it or goes on to do so
Takes(p, k) == Transfers(p, k) \/ progress'[p] = [key |-> k, go |-> TRUE]

\* the next step of download() of p after it chose to transfer object k
Follows(p, k) ==
    /\ progress[p] = [key |-> k, go |-> TRUE]
    /\ progress'[p] # progress[p]

\* the destination holds object k with the content the bucket holds
Present(k) == k \in DOMAIN local /\ local[k] = remote[k].content

\* the keys of the listing between i and j are directory markers
OnlyMarkers(i, j) ==
    \A n \in (i + 1)..(j - 1) :
        n \in DOMAIN remote => EndsWithSlash(remote[n].key)

\* the key of the listing download() of p stands at after this step, one
\* past the last when it has returned normally
Reached(p) ==
    IF progress'[p] # NotStarted THEN progress'[p].key ELSE MaxKeys + 1

\* download() of p goes on in this step and is not cut short
GoesOn(p) ==
    /\ progress'[p] # progress[p]
    /\ pending'[p] \in {"none", "ok"}
    /\ calls'[p] # <<>> /\ calls'[p][1].res = "ok"

\* C25 - idempotent re-run of the object-store fetch: a fetch does not
\* transfer an object the destination already holds with matching size
\* and checksum, and it transfers every object that is new or changed
\* (size or content differs): when download() comes to an object it
\* transfers it exactly if the file is not there with the object's
\* content; it asks the store for an object it chose in the step after
\* the choice; and it passes over no key of the listing but directory
\* markers.
C25_IdempotentRerun ==
    [][\A p \in Procs : \A k \in Keys :
          /\ ComesTo(p, k) => (Takes(p, k) <=> ~Present(k))
          /\ Follows(p, k) => Transfers(p, k)
          /\ GoesOn(p) => OnlyMarkers(progress[p].key, Reached(p))]_vars


\* get_downloader of p raised
ResolutionFailed(p) == variant[p].class \in ResolveErrors

\* C26 - resolution failure is fatal and comes before locking: when
\* get_downloader raises (unknown scheme, a class that cannot be imported),
\* download_model ends with that exception, nothing is tried again, and the
\* call has neither tried to acquire the lease nor opened or created the
\* lock file nor run download().
C26_ResolutionFailsBeforeLock ==
    \A p \in Procs :
        ResolutionFailed(p)
        => /\ outcome[p] = variant[p].class
           /\ pc[p] = "idle"
           /\ ret[p] = "none" /\ saw[p] = "none"
           /\ ~is_locked[p] /\ lock_file[p] = 0 /\ Live(threads[p]) = 0
           /\ downloads[p] = 0 /\ calls[p] = <<>>

\* a source without a known scheme has been refused by the resolver of
\* matrixinfer
C26_Witness ==
    \E p \in Procs :
        /\ variant[p].class = "ValueError" /\ outcome[p] = "ValueError"
        /\ source = <<"r">> /\ path_ino = 0


\* the source is sch followed by bucket b and, if k is not empty, a slash
\* and k
ObjectUrl(sch, b, k) ==
    /\ b # <<>> /\ \A i \in 1..Len(b) : b[i] # "/"
    /\ k # <<>> => k[1] # "/"
    /\ source = sch \o b \o (IF k = <<>> THEN <<>> ELSE <<"/">> \o k)

\* the listing calls of download() of p
Listings(p) ==
    {calls[p][i] : i \in {j \in 1..Len(calls[p]) :
                            calls[p][j].op \in {"list_objects_v2",
                                                "listObjects",
                                                "aws s3 sync"}}}

\* C27 - object-store sources: a source s3://bucket/path (likewise
\* obs://) resolves to the object-store downloader, whatever the
\* configuration holds, and its download() lists the bucket that is the
\* host part with the prefix that is the path without its leading slash.
C27_ObjectStoreDispatch ==
    \A p \in Procs : \A sch \in {S3Scheme, ObsScheme} :
        \A b \in Rests : \A k \in Rests :
            (ObjectUrl(sch, b, k) /\ variant[p] # NoVariant
                                  /\ variant[p].class # "RuntimeError")
            => /\ variant[p].class \in {"S3Downloader", "OBSDownloader",
                                        "matrixinfer.S3Downloader"}
               /\ variant[p].class = "S3Downloader" => sch = S3Scheme
               /\ variant[p].class = "OBSDownloader" => sch = ObsScheme
               /\ \A c \in Listings(p) : c.bucket = b /\ c.prefix = k



\* the source starts with none of the scheme prefixes the resolvers know
Bare(src) ==
    \A sch \in {S3Scheme, ObsScheme, PvcScheme, HfScheme} :
        ~StartsWith(src, sch)

\* C28 - default dispatch: for a source without a recognized scheme prefix
\* (a bare identifier) get_downloader, its imports succeeding, returns the
\* HuggingFace downloader with exactly that string as the repository.
C28_DefaultDispatch ==
    \A p \in Procs :
        (Bare(source) /\ variant[p] # NoVariant
                      /\ variant[p].class # "RuntimeError")
        => /\ variant[p].class = "HuggingFaceDownloader"
           /\ variant[p].model_uri = source



\* a path of one or more components without a leading, a trailing or a
\* doubled slash
PlainPath(r) ==
    /\ r # <<>>
    /\ r[1] # "/" /\ r[Len(r)] # "/"
    /\ \A i \in 1..(Len(r) - 1) : ~(r[i] = "/" /\ r[i + 1] = "/")

\* the copies download() of p has started
Copies(p) ==
    {calls[p][i] : i \in {j \in 1..Len(calls[p]) : calls[p][j].op = "rsync"}}

\* C29 - shared-volume dispatch: for a source pvc://path get_downloader,
\* its imports succeeding, returns the PVC downloader constructed from that
\* source, and download() copies from the directory /path; for the source
\* pvc:// with an empty path download() raises and copies nothing.
C29_SharedVolumeDispatch ==
    \A p \in Procs : \A r \in Rests :
        (/\ source = PvcScheme \o r
         /\ variant[p] # NoVariant
         /\ variant[p].class # "RuntimeError")
        => /\ variant[p].class \in {"PVCDownloader", "kthena.PVCDownloader"}
           /\ variant[p].model_uri = source
           /\ PlainPath(r) => \A c \in Copies(p) : c.src = <<"/">> \o r
           /\ (r = <<>> /\ pending[p] # "none")
              => (pending[p] # "ok" /\ Copies(p) = {})


\* the downloader of p is a PVC downloader
SharedVolume(p) ==
    variant[p].class \in {"PVCDownloader", "kthena.PVCDownloader"}

\* what the volume answered download() of p about its source path
Stats(p) ==
    {calls[p][i] : i \in {j \in 1..Len(calls[p]) : calls[p][j].op = "stat"}}

\* C30 - the PVC download() returns normally only if the source path
\* exists, is a directory and the copy tool exited with status 0; a path
\* that is missing or no directory raises FileNotFoundError before a copy
\* is started, and a non-zero exit status of the copy tool raises.
C30_CopySucceedsOrRaises ==
    \A p \in Procs :
        (SharedVolume(p) /\ pending[p] # "none")
        => /\ pending[p] = "ok"
              => /\ \E st \in Stats(p) : st.exists /\ st.is_dir
                 /\ \E c \in Copies(p) : c.exit = 0
           /\ (\E st \in Stats(p) : ~st.exists \/ ~st.is_dir)
              => (pending[p] = "FileNotFoundError" /\ Copies(p) = {})
           /\ (\E c \in Copies(p) : c.exit # 0) => pending[p] # "ok"


\* what get_downloader can answer for the source and the config of the
\* job, a downloader or an exception
Resolutions ==
    {Called(<<source, config, MaxWorkers>>, 2, 2,
            get_downloader(source, config, ok)) : ok \in BOOLEAN}
    \cup {Called(<<source, config, MaxWorkers>>, 2, 3,
                 mi_get_downloader(source, config, ok)) : ok \in BOOLEAN}

\* C31 - the top-level download_model resolves the backend once, from the
\* source and the config it was given, then calls download_model of that
\* downloader once; an exception of either call reaches the caller as it
\* was raised, and after it nothing is resolved or started again.
C31_ResolveOnceRunOnce ==
    [][\A p \in Procs :
          /\ variant'[p] # variant[p]
             => (/\ variant[p] = NoVariant /\ outcome[p] = "none"
                 /\ variant'[p] \in Resolutions
                 /\ outcome'[p] = IF ResolutionFailed(p)'
                                  THEN variant'[p].class ELSE "none")
          /\ (pc[p] = "idle" /\ pc'[p] # "idle")
             => (/\ variant[p] # NoVariant /\ ~ResolutionFailed(p)
                 /\ outcome[p] = "none" /\ pc'[p] = "dm_loop")
          /\ (pc[p] = "dm_exit" /\ pc'[p] = "idle")
             => (/\ outcome'[p] = pending[p]
                 /\ downloads[p] = 1)
          /\ outcome[p] # "none"
             => (outcome'[p] = outcome[p] /\ pc'[p] = "idle"
                 /\ variant'[p] = variant[p])]_vars

\* a call has ended with the exception its downloader's download() raised,
\* the backend resolved by the resolver of the package and fetched once
C31_Witness ==
    \E p \in Procs :
        /\ pc[p] = "idle" /\ outcome[p] = "SubprocessError"
        /\ variant[p].class = "kthena.PVCDownloader"
        /\ downloads[p] = 1 /\ ~is_locked[p]



\* manager a holds the lease: it is back from a successful try_acquire,
\* owns the advisory lock on the file at the lock path, which holds its
\* process identifier, and its renewal thread is running
HoldsLease(a) ==
    /\ is_locked[a] /\ pc[a] = "idle" /\ ret[a] = "true"
    /\ flocked[a] /\ lock_file[a] # 0 /\ lock_file[a] = path_ino
    /\ Live(threads[a]) > 0 /\ ~stop_renew_event[a]

\* C32 - a failed acquisition leaves the lease untouched: when a
\* try_acquire of manager b returns False while manager a holds the lease,
\* the lock file is still there with the identifier of a in it and its
\* modification time as it was, and a is still held with its advisory lock
\* and its renewal running.
C32_FailedAcquireLeavesLease ==
    [][\A a \in Procs : \A b \in Procs \ {a} :
          (HoldsLease(a) /\ Returns(b) /\ ret'[b] = "false")
          => (/\ path_ino' = path_ino /\ age' = age
              /\ content' = a
              /\ is_locked'[a] /\ flocked'[a]
              /\ threads'[a] = threads[a] /\ ~stop_renew_event'[a])]_vars

\* ---------------------------------------------------------------- C33
\* a step of p that takes the manager from unheld to held
Acquires(p) == ~is_locked[p] /\ is_locked'[p]

\* C33: renewal is started once per acquisition. The step that takes a
\* manager from unheld to held returns True and starts one renewal thread
\* with the stop event cleared; a renewal thread is started by no other
\* step; and a manager that holds the lease and is idle stays idle with
\* True as its result, its open file, its advisory lock and its threads
\* as they were, unless it stops renewal or begins a release: a
\* try_acquire on it returns True and does nothing else.
C33_RenewalStartedOncePerAcquisition ==
    [][\A p \in Procs :
          /\ Acquires(p)
                => /\ ret'[p] = "true"
                   /\ threads'[p] = [threads[p] EXCEPT !["run"] = @ + 1]
                   /\ ~stop_renew_event'[p]
          /\ Live(threads'[p]) > Live(threads[p])
                => Acquires(p)
          /\ (is_locked[p] /\ pc[p] = "idle" /\ pc'[p] # "rl_unlock")
                => /\ pc'[p] = "idle"
                   /\ ret'[p] = "true"
                   /\ is_locked'[p]
                   /\ lock_file'[p] = lock_file[p]
                   /\ flocked'[p] = flocked[p]
                   /\ Live(threads'[p]) <= Live(threads[p])]_vars

\* a manager has acquired the lease and its one renewal thread is running
C33_Witness ==
    \E p \in Procs :
        /\ is_locked[p] /\ pc[p] = "idle" /\ ret[p] = "true"
        /\ threads[p] = [NoThreads EXCEPT !["run"] = 1]
        /\ ~stop_renew_event[p]
        /\ flocked[p] /\ lock_file[p] = path_ino /\ content = p

\* ---------------------------------------------------------------- C34
\* stop_renew has been called on the held manager p and release has not
StoppedHeld(p) == is_locked[p] /\ pc[p] = "idle" /\ stop_renew_event[p]

\* the renewal thread of p carries out the refresh of lines 117-119
Refreshes(p) == threads'[p]["touch"] < threads[p]["touch"]

\* C34: stop_renew stops renewal without releasing. Once stop_renew has
\* been called on a held manager, and until its release begins, its
\* renewal thread refreshes the lock file no more and no thread is
\* started for it, the manager stays locked with its open file and its
\* advisory lock, and a lock file that is at the path stays there.
C34_StopRenewKeepsLease ==
    [][\A p \in Procs :
          StoppedHeld(p)
          => /\ ~Refreshes(p)
             /\ Live(threads'[p]) <= Live(threads[p])
             /\ is_locked'[p]
             /\ lock_file'[p] = lock_file[p] /\ flocked'[p] = flocked[p]
             /\ path_ino # 0 => path_ino' # 0]_vars

\* ---------------------------------------------------------------- C35
\* a step of a method of manager p
Calls(p) ==
    <<pc[p], ret[p], saw[p], is_locked[p], lock_file[p], flocked[p],
      stop_renew_event[p]>>'
    # <<pc[p], ret[p], saw[p], is_locked[p], lock_file[p], flocked[p],
        stop_renew_event[p]>>

\* a step of a renewal thread of manager p
Renews(p) ==
    \/ threads'[p]["run"] < threads[p]["run"]
    \/ Refreshes(p)
    \/ stop_renew_event[p] /\ threads'[p]["wait"] < threads[p]["wait"]

\* no other manager has the lock path of p
Alone(p) == \A q \in Procs \ {p} : lock_path[q] # lock_path[p]

\* C35: leases on distinct paths are independent. A step of try_acquire,
\* release, stop_renew or renewal of a manager leaves the file of every
\* other path as it was (inode, content and mtime) and leaves the fields
\* and threads of every manager on another path as they were; a manager
\* that has its lock path to itself never gets False from try_acquire,
\* whatever the managers of the other paths do or hold, and while it holds
\* the lease its path names the file it has open and locked, with its pid.
C35_DistinctPathsIndependent ==
    /\ [][\A p \in Procs :
             (Calls(p) \/ Renews(p))
             => /\ \A y \in Paths \ {lock_path[p]} :
                      /\ inode_at'[y] = inode_at[y]
                      /\ content_at'[y] = content_at[y]
                      /\ age_at'[y] = age_at[y]
                /\ \A q \in Procs :
                      lock_path[q] # lock_path[p]
                      => /\ ~Calls(q)
                         /\ threads'[q] = threads[q]]_vars
    /\ [](\A p \in Procs :
             Alone(p)
             => /\ ret[p] # "false"
                /\ (is_locked[p] /\ pc[p] = "idle")
                      => /\ lock_file[p] # 0 /\ flocked[p]
                         /\ inode_at[lock_path[p]] = lock_file[p]
                         /\ content_at[lock_path[p]] = p)

\* managers on distinct paths: one holds its lease, with its file at its
\* path, after another has acquired and released its own: the file of
\* that one is gone and its renewal has been stopped
C35_Witness ==
    \E p \in Procs : \E q \in Procs :
        /\ lock_path[p] # lock_path[q]
        /\ is_locked[q] /\ pc[q] = "idle" /\ ret[q] = "true"
        /\ inode_at[lock_path[q]] = lock_file[q] /\ lock_file[q] # 0
        /\ content_at[lock_path[q]] = q
        /\ ~is_locked[p] /\ pc[p] = "idle" /\ ret[p] = "none"
        /\ stop_renew_event[p] /\ Live(threads[p]) = 0
        /\ inode_at[lock_path[p]] = 0

\* ---------------------------------------------------------------- C36
\* manager a owns the advisory lock on the file the shared path names
LiveHolder(a) == flocked[a] /\ lock_file[a] # 0 /\ lock_file[a] = path_ino

\* C36: no steal from a live holder. While a manager owns the advisory
\* lock on the file that exists at the lock path, no try_acquire of another
\* manager returns True, whatever the age of the file.
C36_NoStealFromLiveHolder ==
    [][\A a \in Procs : \A b \in Procs \ {a} :
          LiveHolder(a) => ~(Returns(b) /\ ret'[b] = "true")]_vars

\* ---------------------------------------------------------------- C37
\* the os.remove of the release of manager a is carried out in this step
Removes(a) == pc[a] = "rl_remove" /\ pc'[a] # "rl_remove"

\* manager b holds the lease on the file the shared path names
HoldsFileAtPath(b) ==
    is_locked[b] /\ flocked[b] /\ lock_file[b] # 0 /\ lock_file[b] = path_ino

\* C37: release removes only the releaser's own lock file. The os.remove
\* of a release leaves the path naming the file that another manager
\* holds: has open, has locked and has acquired the lease with.
C37_ReleaseRemovesOnlyOwnFile ==
    [][\A a \in Procs : \A b \in Procs \ {a} :
          (Removes(a) /\ HoldsFileAtPath(b))
          => path_ino' = path_ino]_vars

\* ---------------------------------------------------------------- C38
\* C38: at most one renewal task per manager: in every state each manager
\* has at most one live renewal thread.
C38_AtMostOneRenewalThread ==
    \A p \in Procs : Live(threads[p]) <= 1

\* ---------------------------------------------------------------- C39
\* the download_model call of p has ended after one fetch
Ended(p) == pc[p] = "idle" /\ outcome[p] # "none" /\ downloads[p] = 1

\* C39: termination of all contenders. Every download_model call on the
\* shared destination eventually ends, having acquired the lease and run
\* its fetch once, and then stays ended; no call fetches twice.
C39_AllContendersTerminate ==
    /\ \A p \in Procs : <>[]Ended(p)
    /\ [](\A p \in Procs : downloads[p] <= 1)

\* one call has ended and left a lock file behind (its removal or its
\* unlock failed); the other has waited until that file expired, has taken
\* it over and is in its fetch
C39_Witness ==
    \E p \in Procs : \E q \in Procs \ {p} :
        /\ Ended(p) /\ ~is_locked[p] /\ lock_file[p] = 0
        /\ pc[q] = "dm_download" /\ is_locked[q] /\ saw[q] = "expired"
        /\ lock_file[q] = path_ino /\ content = q

====
